---- MODULE Spec2Model ----
(***************************************************************************)
(* Model of the segmented Bitcask store of internal/storage/db.go (the     *)
(* final, directory-based DB with rotation, hint files, mmap readers and   *)
(* Merge).                                                                 *)
(*                                                                         *)
(* A data file is the sequence of the records appended to it.  A record    *)
(* keeps the fields of the on-disk layout (crc, ts, ksz, vsz, key, val);   *)
(* byte offsets are computed from the record lengths 20 + |key| + |val|,   *)
(* so the KeyDir holds real byte offsets and a read at an offset has to    *)
(* find a record that starts exactly there.                                *)
(***************************************************************************)
EXTENDS Integers, Sequences, FiniteSets, TLC

\* ------------------------------------------------------------------ bounds
MaxWrites == 3          \* number of Put/Delete calls explored
MaxFileSize == 44       \* rotation threshold (a var in the code, set small as the tests do)
MaxFaults == 1          \* injected crashes, I/O errors and damaged records per behaviour
NumThreads == 2         \* goroutines calling one store
MaxConcWrites == 2      \* Put/Delete calls explored with several goroutines
MaxFairWrites == 1      \* Put/Delete calls explored under fair scheduling
MaxShards == 3          \* largest shard count a router is built with
MaxRouterWrites == 2    \* number of Put/Delete calls explored through a router
MaxBulkWrites == 4      \* Put calls explored when segments are filled for a Merge
MaxStepWrites == 3      \* Put calls explored with several goroutines and a Merge in steps

\* --------------------------------------------------------------- constants
HeaderSize == 20
\* ^uint32(0) = 0xFFFFFFFF, written as its 32-bit two's-complement reading
tombstoneValueSize == 0 - 1

Keys == {<<1>>, <<2>>, <<3>>}
Values == {<<5>>, <<6, 7>>}

\* a value of 0xFFFFFFFF bytes; its bytes are not written out one by one
HugeValue == <<0 - 1>>

\* uint32(len(value))
Uint32Len(value) == IF value = HugeValue THEN tombstoneValueSize ELSE Len(value)

VARIABLES
    dataFiles,      \* disk: segment ID -> sequence of records of <ID>.data
    hintFiles,      \* disk: segment ID -> sequence of entries of <ID>.hint
    tempFiles,      \* disk: which of merge.data / merge.hint exist
    open,           \* a DB value returned by NewDB exists and is not closed
    activeFileID,   \* DB.activeFileID
    olderFiles,     \* DB.olderFiles: IDs that have an open reader
    keyDir,         \* DB.keyDir: key -> [FileID, Offset]
    writeOffset,    \* DB.writeOffset
    activeFile,     \* DB.activeFile: "open", or "closed" once Close was called on the handle
    clock,          \* time.Now(): one tick per write
    lastWrite,      \* history: key -> result the last write to the key calls for
    snap,           \* history: how the store was last shut, the Get results at that
                    \* moment and the handles DB.Close called Close on; forgotten
                    \* at the next write
    faults,         \* history: number of injected crashes, I/O errors and damaged records
    lastOp,         \* the call that produced this state and what it returned
    pc,             \* goroutine -> where it is in its call
    mu,             \* DB.mu: the writer holding it (0 if none) and the readers holding it
    call,           \* goroutine -> the call it is in, with its result
    hist,           \* history: key -> results called for by the writes to it, in lock order
    returned,       \* history: key -> number of the latest write to it that has returned
    sdb,            \* the ShardedDB: its shards (each a DB of its own) and numShards
    intBits,        \* width of Go's int on the platform the program was built for
    ioLog           \* history: the file system calls of the latest logged Put, Delete or Merge

vars == <<dataFiles, hintFiles, tempFiles, open, activeFileID, olderFiles,
          keyDir, writeOffset, activeFile, clock, lastWrite, snap, faults, lastOp,
          pc, mu, call, hist, returned, sdb, intBits, ioLog>>

diskVars == <<dataFiles, hintFiles, tempFiles>>
dbVars == <<activeFileID, olderFiles, keyDir, writeOffset, activeFile>>
concVars == <<pc, mu, call, hist, returned>>
singleStoreVars == <<diskVars, dbVars, open, snap, faults>>
routerVars == <<sdb, intBits>>

\* ----------------------------------------------------------------- helpers
EmptyMap == [x \in {} |-> 0]

Min(S) == CHOOSE x \in S : \A y \in S : x <= y
Max(S) == CHOOSE x \in S : \A y \in S : x >= y

Restrict(f, S) == [x \in S |-> f[x]]

RECURSIVE SortInts(_)
SortInts(S) == IF S = {} THEN <<>> ELSE <<Min(S)>> \o SortInts(S \ {Min(S)})

\* every order in which a Go map range can visit the keys of S
Orderings(S) ==
    {s \in [1..Cardinality(S) -> S] : \A i, j \in 1..Cardinality(S) : i # j => s[i] # s[j]}

\* results
Ok(v) == [err |-> "nil", val |-> v]
Err(e) == [err |-> e, val |-> <<>>]
ErrKeyNotFound == Err("ErrKeyNotFound")
ErrDataCorruption == Err("ErrDataCorruption")

NoHandles == [writer |-> FALSE, readers |-> {}]
NoSnap == [how |-> "none", get |-> EmptyMap, closed |-> NoHandles]

Threads == 1..NumThreads
NoCall == [op |-> "none", key |-> <<>>, val |-> <<>>, n |-> 0, shard |-> 0,
           res |-> [err |-> "nil", val |-> <<>>]]

\* ------------------------------------------------------------ record codec
\* crc32.ChecksumIEEE over the bytes after the CRC field.  The checksum is
\* kept as the checked bytes themselves: two inputs have the same checksum
\* only if they are equal, which is what CRC32 guarantees for the single-byte
\* damage modelled here.
ChecksumIEEE(bytes) == bytes

CheckData(ts, ksz, vsz, key, val) == <<ts, ksz, vsz>> \o key \o val

EncodeRecord(ts, key, vsz, val) ==
    [crc |-> ChecksumIEEE(CheckData(ts, Len(key), vsz, key, val)),
     ts |-> ts, ksz |-> Len(key), vsz |-> vsz, key |-> key, val |-> val]

CrcOk(rec) == ChecksumIEEE(CheckData(rec.ts, rec.ksz, rec.vsz, rec.key, rec.val)) = rec.crc

\* a record of which only the first n bytes reached the file (a short write)
Torn(rec, n) ==
    [crc |-> rec.crc, ts |-> rec.ts, ksz |-> rec.ksz, vsz |-> rec.vsz,
     key |-> rec.key, val |-> rec.val, cut |-> n]

IsTorn(rec) == "cut" \in DOMAIN rec

\* physical length of a record in its file
RecLen(rec) == IF IsTorn(rec) THEN rec.cut ELSE HeaderSize + Len(rec.key) + Len(rec.val)

RECURSIVE FileSize(_)
FileSize(f) == IF f = <<>> THEN 0 ELSE RecLen(Head(f)) + FileSize(Tail(f))

OffsetOf(f, i) == FileSize(SubSeq(f, 1, i - 1))

\* index of the record that starts at byte offset off, 0 if none does
RecordAt(f, off) ==
    IF \E i \in 1..Len(f) : OffsetOf(f, i) = off
    THEN CHOOSE i \in 1..Len(f) : OffsetOf(f, i) = off
    ELSE 0

SetKey(kd, key, pos) == (key :> pos) @@ kd
DelKey(kd, key) == Restrict(kd, DOMAIN kd \ {key})

\* ------------------------------------------------------------------- reads
\* what a reader of segment id returns: the bytes of <id>.data
ReaderContent(id) == IF id \in DOMAIN dataFiles THEN dataFiles[id] ELSE <<>>

\* The bytes at an offset where no record starts are not a record header.
\* What a read there returns depends on those bytes: EOF when the lengths
\* they spell run past the end of the file, ErrDataCorruption otherwise.
ErrNoRecord == Err("EOF or ErrDataCorruption")

\* DiskReader.ReadAt, which is os.File.ReadAt: n bytes at offset off of a
\* file of size bytes.  A read of no bytes succeeds at any offset.
DiskReaderReadAt(size, off, n) ==
    IF n = 0 \/ off + n <= size THEN "nil" ELSE "EOF"

\* MmapReader.ReadAt: an offset at or behind the end of the mapping is EOF
\* whatever the length asked for
MmapReaderReadAt(size, off, n) ==
    IF off < 0 \/ off >= size THEN "EOF"
    ELSE IF off + n > size THEN "EOF"
    ELSE "nil"

\* Reader.ReadAt of the reader Get has picked: a DiskReader around the active
\* file ("disk") or the MmapReader of an immutable segment ("mmap")
ReaderReadAt(reader, size, off, n) ==
    IF reader = "mmap" THEN MmapReaderReadAt(size, off, n) ELSE DiskReaderReadAt(size, off, n)

\* The two ReadAt calls of Get through the given reader and the CRC check
\* that follows: the 20-byte header at off, then KeySize + ValueSize bytes at
\* off + 20.  A tombstone spells a ValueSize of 0xFFFFFFFF, which no file
\* here holds.  The bytes behind the cut of a torn record belong to the
\* record appended next.
GetRead(reader, f, off) ==
    LET i == RecordAt(f, off)
        size == FileSize(f)
    IN  IF ReaderReadAt(reader, size, off, HeaderSize) # "nil" THEN Err("EOF")
        ELSE IF i = 0 \/ (i # 0 /\ IsTorn(f[i]) /\ f[i].cut < HeaderSize) THEN ErrNoRecord
        ELSE IF f[i].vsz = tombstoneValueSize THEN Err("EOF")
        ELSE IF ReaderReadAt(reader, size, off + HeaderSize, f[i].ksz + f[i].vsz) # "nil" THEN Err("EOF")
        ELSE IF IsTorn(f[i]) \/ ~CrcOk(f[i]) THEN ErrDataCorruption
        ELSE Ok(f[i])

\* The two ReadAt calls of Merge and the CRC check that follows: the 20-byte
\* header at off, then the whole record of 20 + KeySize + ValueSize bytes at
\* off again, a read that is never empty.
ReadRecord(f, off) ==
    LET i == RecordAt(f, off)
        avail == FileSize(f) - off
    IN  IF avail < HeaderSize THEN Err("EOF")
        ELSE IF i = 0 \/ (i # 0 /\ IsTorn(f[i]) /\ f[i].cut < HeaderSize) THEN ErrNoRecord
        ELSE IF f[i].vsz = tombstoneValueSize THEN Err("EOF")
        ELSE IF avail < HeaderSize + f[i].ksz + f[i].vsz THEN Err("EOF")
        ELSE IF IsTorn(f[i]) \/ ~CrcOk(f[i]) THEN ErrDataCorruption
        ELSE Ok(f[i])

\* DB.Get, as a function of the current state
Get(key) ==
    IF key \notin DOMAIN keyDir THEN ErrKeyNotFound
    ELSE LET pos == keyDir[key] IN
         IF pos.FileID # activeFileID /\ pos.FileID \notin olderFiles
         THEN Err("file not found: internal error")
         ELSE IF pos.FileID = activeFileID /\ activeFile = "closed"
         THEN Err("file already closed")
         ELSE LET f == ReaderContent(pos.FileID)
                  r == IF pos.FileID = activeFileID
                       THEN GetRead("disk", f, pos.Offset)
                       ELSE GetRead("mmap", f, pos.Offset)
              IN  IF r.err # "nil" THEN r
                  ELSE IF r.val.key # key THEN Err("key mismatch")
                  ELSE Ok(r.val.val)

GetAll == [k \in Keys |-> Get(k)]

\* ---------------------------------------------------------------- recovery
\* variant: the scan indexes a tombstone like a live record
RECURSIVE loadKeyDir_keepDeleted(_, _, _, _, _)
loadKeyDir_keepDeleted(fileID, file, i, offset, kd) ==
    IF i > Len(file) THEN [err |-> "nil", keyDir |-> kd]
    ELSE LET rec == file[i]
             isTombstone == rec.vsz = tombstoneValueSize
             valSize == IF isTombstone THEN 0 ELSE rec.vsz
         IN  IF ~CrcOk(rec) THEN [err |-> "ErrDataCorruption", keyDir |-> kd]
             ELSE loadKeyDir_keepDeleted(fileID, file, i + 1,
                             offset + HeaderSize + rec.ksz + valSize,
                             SetKey(kd, rec.key, [FileID |-> fileID, Offset |-> offset]))

\* variant: the scan does not compare the checksum
RECURSIVE loadKeyDir_noCrc(_, _, _, _, _)
loadKeyDir_noCrc(fileID, file, i, offset, kd) ==
    IF i > Len(file) THEN [err |-> "nil", keyDir |-> kd]
    ELSE LET rec == file[i]
             isTombstone == rec.vsz = tombstoneValueSize
             valSize == IF isTombstone THEN 0 ELSE rec.vsz
         IN  loadKeyDir_noCrc(fileID, file, i + 1, offset + HeaderSize + rec.ksz + valSize,
                              IF isTombstone THEN DelKey(kd, rec.key)
                              ELSE SetKey(kd, rec.key, [FileID |-> fileID, Offset |-> offset]))

\* The error of io.ReadFull when the scan reaches a torn record with avail
\* bytes left in the file: io.EOF if a read finds no byte at all,
\* io.ErrUnexpectedEOF if it finds too few; if the bytes suffice they are
\* those of the next record and the checksum does not match.
TornScanErr(rec, avail) ==
    LET valSize == IF rec.vsz = tombstoneValueSize THEN 0 ELSE rec.vsz
        short(have, want) == IF have = 0 THEN "EOF" ELSE "unexpected EOF"
    IN  IF avail < HeaderSize THEN "unexpected EOF"
        ELSE IF rec.cut < HeaderSize THEN ErrNoRecord.err
        ELSE IF avail < HeaderSize + rec.ksz THEN short(avail - HeaderSize, rec.ksz)
        ELSE IF avail < HeaderSize + rec.ksz + valSize
             THEN short(avail - HeaderSize - rec.ksz, valSize)
        ELSE "ErrDataCorruption"

\* variant: a record cut short at the end of the file is taken as the end of
\* the file
RECURSIVE loadKeyDir_skipTorn(_, _, _, _, _)
loadKeyDir_skipTorn(fileID, file, i, offset, kd) ==
    IF i > Len(file) THEN [err |-> "nil", keyDir |-> kd]
    ELSE LET rec == file[i]
             isTombstone == rec.vsz = tombstoneValueSize
             valSize == IF isTombstone THEN 0 ELSE rec.vsz
         IN  IF IsTorn(rec) THEN [err |-> "nil", keyDir |-> kd]
             ELSE IF ~CrcOk(rec) THEN [err |-> "ErrDataCorruption", keyDir |-> kd]
             ELSE loadKeyDir_skipTorn(fileID, file, i + 1, offset + HeaderSize + rec.ksz + valSize,
                             IF isTombstone THEN DelKey(kd, rec.key)
                             ELSE SetKey(kd, rec.key, [FileID |-> fileID, Offset |-> offset]))

\* DB.loadKeyDir: scan one data file front to back
RECURSIVE loadKeyDir(_, _, _, _, _)
loadKeyDir(fileID, file, i, offset, kd) ==
    IF i > Len(file) THEN [err |-> "nil", keyDir |-> kd]
    ELSE LET rec == file[i]
             isTombstone == rec.vsz = tombstoneValueSize
             valSize == IF isTombstone THEN 0 ELSE rec.vsz
         IN  IF IsTorn(rec)
             THEN [err |-> TornScanErr(rec, FileSize(file) - offset), keyDir |-> kd]
             ELSE IF ~CrcOk(rec) THEN [err |-> "ErrDataCorruption", keyDir |-> kd]
             ELSE loadKeyDir(fileID, file, i + 1, offset + HeaderSize + rec.ksz + valSize,
                             IF isTombstone THEN DelKey(kd, rec.key)
                             ELSE SetKey(kd, rec.key, [FileID |-> fileID, Offset |-> offset]))

\* checksum of a hint entry: header after the CRC field, then the key
HintCheckData(ts, ksz, vsz, off, key) == <<ts, ksz, vsz, off>> \o key

HintCrcOk(h) == ChecksumIEEE(HintCheckData(h.ts, h.ksz, h.vsz, h.off, h.key)) = h.crc

\* size of a hint entry: 28-byte header and the key
HintHeaderSize == 28

\* variant: the KeyDir gets the position in the hint file, not DataOffset
RECURSIVE loadHintFile_hintOffset(_, _, _, _)
loadHintFile_hintOffset(fileID, hint, i, kd) ==
    IF i > Len(hint) THEN [err |-> "nil", keyDir |-> kd]
    ELSE IF ~HintCrcOk(hint[i]) THEN [err |-> "ErrDataCorruption", keyDir |-> kd]
    ELSE loadHintFile_hintOffset(fileID, hint, i + 1,
            SetKey(kd, hint[i].key,
                   [FileID |-> fileID,
                    Offset |-> IF i = 1 THEN 0
                               ELSE kd[hint[i - 1].key].Offset + HintHeaderSize + hint[i - 1].ksz]))

\* DB.loadHintFile: take every entry of the hint file as the KeyDir entry
RECURSIVE loadHintFile(_, _, _, _)
loadHintFile(fileID, hint, i, kd) ==
    IF i > Len(hint) THEN [err |-> "nil", keyDir |-> kd]
    ELSE IF ~HintCrcOk(hint[i]) THEN [err |-> "ErrDataCorruption", keyDir |-> kd]
    ELSE loadHintFile(fileID, hint, i + 1,
                      SetKey(kd, hint[i].key, [FileID |-> fileID, Offset |-> hint[i].off]))

\* DB.loadFile: hint file if there is one, else scan the data file
loadFile(id, kd) ==
    IF id \in DOMAIN hintFiles
    THEN loadHintFile(id, hintFiles[id], 1, kd)
    ELSE loadKeyDir(id, dataFiles[id], 1, 0, kd)

\* the loop of NewDB over the sorted file IDs; stops at the first error
RECURSIVE loadAll(_, _)
loadAll(fileIDs, kd) ==
    IF fileIDs = <<>> THEN [err |-> "nil", keyDir |-> kd]
    ELSE LET r == loadFile(Head(fileIDs), kd)
         IN  IF r.err # "nil" THEN r ELSE loadAll(Tail(fileIDs), r.keyDir)

\* -------------------------------------------------------------- operations
\* again: the call is a Merge that directly follows a successful Merge
Op(name, key, res) ==
    [op |-> name, key |-> key, res |-> res,
     again |-> name = "Merge" /\ res.err = "nil" /\ lastOp.op = "Merge" /\ lastOp.res.err = "nil"]

\* variant: the rotation forgets to reset writeOffset
newActiveFile_keepOffset(id) ==
    [olderFiles |-> olderFiles \cup {activeFileID},
     dataFiles |-> IF id \in DOMAIN dataFiles THEN dataFiles ELSE (id :> <<>>) @@ dataFiles,
     activeFileID |-> id,
     writeOffset |-> writeOffset]

\* DB.newActiveFile(id) while an active file is open: the old active file is
\* synced, closed and re-opened as a reader; <id>.data is opened with O_CREATE
newActiveFile(id) ==
    [olderFiles |-> olderFiles \cup {activeFileID},
     dataFiles |-> IF id \in DOMAIN dataFiles THEN dataFiles ELSE (id :> <<>>) @@ dataFiles,
     activeFileID |-> id,
     writeOffset |-> 0]

NoRotation ==
    [olderFiles |-> olderFiles, dataFiles |-> dataFiles,
     activeFileID |-> activeFileID, writeOffset |-> writeOffset]

\* variant: Delete appends the tombstone and leaves the KeyDir entry
AppendRecord_keepEntry(key, vsz, val, isDelete) ==
    LET recordSize == HeaderSize + Len(key) + Len(val)
        st == IF writeOffset + recordSize > MaxFileSize
              THEN newActiveFile(activeFileID + 1) ELSE NoRotation
        rec == EncodeRecord(clock + 1, key, vsz, val)
        pos == [FileID |-> st.activeFileID, Offset |-> st.writeOffset]
    IN  /\ dataFiles' = [st.dataFiles EXCEPT ![st.activeFileID] = Append(@, rec)]
        /\ olderFiles' = st.olderFiles
        /\ activeFileID' = st.activeFileID
        /\ keyDir' = IF isDelete THEN keyDir ELSE SetKey(keyDir, key, pos)
        /\ writeOffset' = st.writeOffset + recordSize
        /\ activeFile' = "open"
        /\ clock' = clock + 1

\* variant: Put stores the offset behind the record it appended
AppendRecord_offsetAfter(key, vsz, val, isDelete) ==
    LET recordSize == HeaderSize + Len(key) + Len(val)
        st == IF writeOffset + recordSize > MaxFileSize
              THEN newActiveFile(activeFileID + 1) ELSE NoRotation
        rec == EncodeRecord(clock + 1, key, vsz, val)
        pos == [FileID |-> st.activeFileID, Offset |-> st.writeOffset + recordSize]
    IN  /\ dataFiles' = [st.dataFiles EXCEPT ![st.activeFileID] = Append(@, rec)]
        /\ olderFiles' = st.olderFiles
        /\ activeFileID' = st.activeFileID
        /\ keyDir' = IF isDelete THEN DelKey(keyDir, key) ELSE SetKey(keyDir, key, pos)
        /\ writeOffset' = st.writeOffset + recordSize
        /\ activeFile' = "open"
        /\ clock' = clock + 1

\* variant: the rotation check of Put and Delete uses >= in place of >
AppendRecord_rotateAtLimit(key, vsz, val, isDelete) ==
    LET recordSize == HeaderSize + Len(key) + Len(val)
        st == IF writeOffset + recordSize >= MaxFileSize
              THEN newActiveFile(activeFileID + 1) ELSE NoRotation
        rec == EncodeRecord(clock + 1, key, vsz, val)
        pos == [FileID |-> st.activeFileID, Offset |-> st.writeOffset]
    IN  /\ dataFiles' = [st.dataFiles EXCEPT ![st.activeFileID] = Append(@, rec)]
        /\ olderFiles' = st.olderFiles
        /\ activeFileID' = st.activeFileID
        /\ keyDir' = IF isDelete THEN DelKey(keyDir, key) ELSE SetKey(keyDir, key, pos)
        /\ writeOffset' = st.writeOffset + recordSize
        /\ activeFile' = "open"
        /\ clock' = clock + 1

\* the append of Put and Delete: rotation check, O_APPEND write, then the
\* KeyDir change and the advance of writeOffset
AppendRecord(key, vsz, val, isDelete) ==
    LET recordSize == HeaderSize + Len(key) + Len(val)
        st == IF writeOffset + recordSize > MaxFileSize
              THEN newActiveFile(activeFileID + 1) ELSE NoRotation
        rec == EncodeRecord(clock + 1, key, vsz, val)
        pos == [FileID |-> st.activeFileID, Offset |-> st.writeOffset]
    IN  /\ dataFiles' = [st.dataFiles EXCEPT ![st.activeFileID] = Append(@, rec)]
        /\ olderFiles' = st.olderFiles
        /\ activeFileID' = st.activeFileID
        /\ keyDir' = IF isDelete THEN DelKey(keyDir, key) ELSE SetKey(keyDir, key, pos)
        /\ writeOffset' = st.writeOffset + recordSize
        /\ activeFile' = "open"
        /\ clock' = clock + 1

\* the rotation check of Put and Delete
NeedsRotation(recordSize) == writeOffset + recordSize > MaxFileSize

\* activeFile.Write on a handle that was closed and not replaced by a rotation
WriteOnClosed(recordSize) == ~NeedsRotation(recordSize) /\ activeFile = "closed"

\* a Put or Delete whose Write returns an error: the timestamp was taken,
\* nothing else changed
WriteRefused(name, key, e) ==
    /\ lastOp' = Op(name, key, Err(e))
    /\ clock' = clock + 1
    /\ snap' = NoSnap
    /\ UNCHANGED <<diskVars, dbVars, open, lastWrite, faults>>

\* variant: Put does not compare the value size with the tombstone sentinel
PutBody_noSentinelCheck(key, value) ==
    /\ AppendRecord(key, Uint32Len(value), value, FALSE)
    /\ lastWrite' = [lastWrite EXCEPT ![key] = Ok(value)]
    /\ lastOp' = Op("Put", key, Ok(<<>>))
    /\ snap' = NoSnap
    /\ UNCHANGED <<hintFiles, tempFiles, open, faults>>

\* DB.Put between Lock and Unlock
PutBody(key, value) ==
    IF Uint32Len(value) = tombstoneValueSize
    THEN /\ lastOp' = Op("Put", key, Err("value too large"))
         /\ UNCHANGED <<diskVars, dbVars, open, clock, lastWrite, snap, faults>>
    ELSE IF WriteOnClosed(HeaderSize + Len(key) + Len(value))
    THEN WriteRefused("Put", key, "file already closed")
    ELSE /\ AppendRecord(key, Uint32Len(value), value, FALSE)
         /\ lastWrite' = [lastWrite EXCEPT ![key] = Ok(value)]
         /\ lastOp' = Op("Put", key, Ok(<<>>))
         /\ snap' = NoSnap
         /\ UNCHANGED <<hintFiles, tempFiles, open, faults>>

\* variant: Delete returns at once when the key is not in the KeyDir
DeleteBody_skipAbsent(key) ==
    IF key \notin DOMAIN keyDir
    THEN /\ lastOp' = Op("Delete", key, Ok(<<>>))
         /\ snap' = NoSnap
         /\ UNCHANGED <<diskVars, dbVars, open, clock, lastWrite, faults>>
    ELSE /\ AppendRecord(key, tombstoneValueSize, <<>>, TRUE)
         /\ lastWrite' = [lastWrite EXCEPT ![key] = ErrKeyNotFound]
         /\ lastOp' = Op("Delete", key, Ok(<<>>))
         /\ snap' = NoSnap
         /\ UNCHANGED <<hintFiles, tempFiles, open, faults>>

\* DB.Delete between Lock and Unlock
DeleteBody(key) ==
    IF WriteOnClosed(HeaderSize + Len(key))
    THEN WriteRefused("Delete", key, "file already closed")
    ELSE /\ AppendRecord(key, tombstoneValueSize, <<>>, TRUE)
         /\ lastWrite' = [lastWrite EXCEPT ![key] = ErrKeyNotFound]
         /\ lastOp' = Op("Delete", key, Ok(<<>>))
         /\ snap' = NoSnap
         /\ UNCHANGED <<hintFiles, tempFiles, open, faults>>

\* variant: a Get whose read fails forgets the key
GetBody_dropUnreadable(key) ==
    /\ lastOp' = Op("Get", key, Get(key))
    /\ keyDir' = IF Get(key).err \in {"nil", "ErrKeyNotFound"} THEN keyDir ELSE DelKey(keyDir, key)
    /\ UNCHANGED <<diskVars, activeFileID, olderFiles, writeOffset, activeFile, open, clock, lastWrite, snap, faults>>

\* DB.Get between RLock and RUnlock
GetBody(key) ==
    /\ lastOp' = Op("Get", key, Get(key))
    /\ UNCHANGED <<diskVars, dbVars, open, clock, lastWrite, snap, faults>>

\* ---- the calls of a single caller: lock, body and unlock in one step
Put(key, value) ==
    /\ open
    /\ clock < MaxWrites
    /\ PutBody(key, value)
    /\ UNCHANGED <<concVars, routerVars, ioLog>>

Delete(key) ==
    /\ open
    /\ clock < MaxWrites
    /\ DeleteBody(key)
    /\ UNCHANGED <<concVars, routerVars, ioLog>>

GetOp(key) ==
    /\ open
    /\ GetBody(key)
    /\ UNCHANGED <<concVars, routerVars, ioLog>>

\* DB.Close: activeFile.Close, then Close of every reader of olderFiles; the
\* first error is returned at once.  Close of a handle that is closed already
\* returns os.ErrClosed.
Close ==
    /\ open
    /\ open' = FALSE
    /\ activeFile' = "closed"
    /\ IF activeFile = "closed"
       THEN /\ snap' = [how |-> "Close", get |-> GetAll,
                        closed |-> [writer |-> TRUE, readers |-> {}]]
            /\ lastOp' = Op("Close", <<>>, Err("file already closed"))
       ELSE /\ snap' = [how |-> "Close", get |-> GetAll,
                        closed |-> [writer |-> TRUE, readers |-> olderFiles]]
            /\ lastOp' = Op("Close", <<>>, Ok(<<>>))
    /\ UNCHANGED <<diskVars, activeFileID, olderFiles, keyDir, writeOffset,
                   clock, lastWrite, faults, concVars, routerVars, ioLog>>

\* NewDB on the directory as it is on disk
NewDB ==
    /\ ~open
    /\ LET fileIDs == SortInts(DOMAIN dataFiles)
           r == loadAll(fileIDs, EmptyMap)
           lastID == fileIDs[Len(fileIDs)]
       IN  IF r.err # "nil"
           THEN /\ lastOp' = Op("NewDB", <<>>, Err(r.err))
                /\ UNCHANGED <<diskVars, dbVars, open>>
           ELSE /\ open' = TRUE
                /\ activeFile' = "open"
                /\ keyDir' = r.keyDir
                /\ lastOp' = Op("NewDB", <<>>, Ok(<<>>))
                /\ IF fileIDs = <<>>
                   THEN /\ dataFiles' = (0 :> <<>>)
                        /\ activeFileID' = 0
                        /\ olderFiles' = {}
                        /\ writeOffset' = 0
                   ELSE /\ olderFiles' = DOMAIN dataFiles \ {lastID}
                        /\ activeFileID' = lastID
                        /\ writeOffset' = FileSize(dataFiles[lastID])
                        /\ UNCHANGED dataFiles
                /\ UNCHANGED <<hintFiles, tempFiles>>
    /\ UNCHANGED <<clock, lastWrite, snap, faults, concVars, routerVars, ioLog>>

\* ------------------------------------------------------------------- Merge
\* the keys the loop of Merge copies: KeyDir entries outside the active file
MergeKeys == {k \in DOMAIN keyDir : keyDir[k].FileID # activeFileID}

\* variant: the loop copies the record without comparing the checksum
MergeRead_noCrc(key) ==
    LET pos == keyDir[key] IN
    IF pos.FileID \notin olderFiles THEN Err("file not found during merge")
    ELSE LET f == ReaderContent(pos.FileID)
             i == RecordAt(f, pos.Offset)
         IN  IF i = 0 \/ (i # 0 /\ f[i].vsz = tombstoneValueSize) THEN Err("EOF")
             ELSE Ok(f[i])

\* the read and CRC check of one key inside the loop of Merge
MergeRead(key) ==
    LET pos == keyDir[key] IN
    IF pos.FileID \notin olderFiles THEN Err("file not found during merge")
    ELSE ReadRecord(ReaderContent(pos.FileID), pos.Offset)

\* the error the loop stops with when it visits the keys in the order ord
MergeLoopErr(ord) ==
    IF \A i \in 1..Len(ord) : MergeRead(ord[i]).err = "nil" THEN "nil"
    ELSE MergeRead(ord[Min({i \in 1..Len(ord) : MergeRead(ord[i]).err # "nil"})]).err

\* variant: the loop writes each record anew, stamped with the time of the Merge
MergedData_restamped(ord) ==
    [i \in 1..Len(ord) |->
        EncodeRecord(clock + 1, ord[i], MergeRead(ord[i]).val.vsz, MergeRead(ord[i]).val.val)]

\* merge.data: the records copied unchanged, in visiting order
MergedData(ord) == [i \in 1..Len(ord) |-> MergeRead(ord[i]).val]

\* variant: the offsets in merge.hint leave out the record headers
MergedHint_payloadOffsets(ord) ==
    [i \in 1..Len(ord) |->
        LET rec == MergedData(ord)[i]
            off == OffsetOf(MergedData(ord), i) - (i - 1) * HeaderSize
        IN  [crc |-> ChecksumIEEE(HintCheckData(rec.ts, rec.ksz, rec.vsz, off, ord[i])),
             ts |-> rec.ts, ksz |-> rec.ksz, vsz |-> rec.vsz, off |-> off, key |-> ord[i]]]

\* merge.hint: one entry per copied record with its offset in merge.data
MergedHint(ord) ==
    [i \in 1..Len(ord) |->
        LET rec == MergedData(ord)[i]
            off == OffsetOf(MergedData(ord), i)
        IN  [crc |-> ChecksumIEEE(HintCheckData(rec.ts, rec.ksz, rec.vsz, off, ord[i])),
             ts |-> rec.ts, ksz |-> rec.ksz, vsz |-> rec.vsz, off |-> off, key |-> ord[i]]]

\* variant: newKeyPos keeps the ID of the segment the record was read from
NewKeyPos_keepFileID(ord, targetID) ==
    [k \in MergeKeys |->
        LET i == CHOOSE j \in 1..Len(ord) : ord[j] = k
        IN  [FileID |-> keyDir[k].FileID, Offset |-> OffsetOf(MergedData(ord), i)]]

\* variant: newKeyPos keeps the offset the record was read from
NewKeyPos_keepOffset(ord, targetID) ==
    [k \in MergeKeys |-> [FileID |-> targetID, Offset |-> keyDir[k].Offset]]

\* newKeyPos of Merge
NewKeyPos(ord, targetID) ==
    [k \in MergeKeys |->
        LET i == CHOOSE j \in 1..Len(ord) : ord[j] = k
        IN  [FileID |-> targetID, Offset |-> OffsetOf(MergedData(ord), i)]]

\* variant: Merge writes the merged segment under the ID above the active one
TargetID_aboveActive == activeFileID + 1

\* targetID of Merge: the smallest immutable ID is reused
TargetID == Min(olderFiles)

\* the segments Merge closes and removes: mergeIDs but for the active ID
RetiredIDs == olderFiles \ {activeFileID}

\* DB.Merge between Lock and Unlock, without I/O failures
MergeBody ==
    /\ IF olderFiles = {}
       THEN /\ lastOp' = Op("Merge", <<>>, Ok(<<>>))
            /\ UNCHANGED <<diskVars, dbVars>>
       ELSE \E ord \in Orderings(MergeKeys) :
            LET targetID == TargetID
                e == MergeLoopErr(ord)
            IN  IF e # "nil"
                THEN /\ lastOp' = Op("Merge", <<>>, Err(e))
                     /\ UNCHANGED <<diskVars, dbVars>>
                ELSE /\ dataFiles' = (targetID :> MergedData(ord))
                                     @@ Restrict(dataFiles, DOMAIN dataFiles \ RetiredIDs)
                     /\ hintFiles' = (targetID :> MergedHint(ord))
                                     @@ Restrict(hintFiles, DOMAIN hintFiles \ RetiredIDs)
                     /\ olderFiles' = {targetID} \cup (olderFiles \ RetiredIDs)
                     /\ keyDir' = NewKeyPos(ord, targetID) @@ keyDir
                     /\ lastOp' = Op("Merge", <<>>, Ok(<<>>))
                     /\ tempFiles' = {}
                     /\ UNCHANGED <<activeFileID, writeOffset, activeFile>>
    /\ UNCHANGED <<open, clock, lastWrite, snap, faults>>

Merge ==
    /\ open
    /\ MergeBody
    /\ UNCHANGED <<concVars, routerVars, ioLog>>

\* ----------------------------------------------------------- specification
\* no ShardedDB has been built
NoRouter ==
    [shards |-> <<>>, numShards |-> 0, closed |-> FALSE, closeRes |-> EmptyMap, merged |-> {}]

\* the state NewDB returns for a directory that does not exist yet
Init ==
    /\ sdb = NoRouter
    /\ intBits = 64
    /\ ioLog = <<>>
    /\ activeFile = "open"
    /\ dataFiles = (0 :> <<>>)
    /\ hintFiles = EmptyMap
    /\ tempFiles = {}
    /\ open = TRUE
    /\ activeFileID = 0
    /\ olderFiles = {}
    /\ keyDir = EmptyMap
    /\ writeOffset = 0
    /\ clock = 0
    /\ faults = 0
    /\ pc = [t \in Threads |-> "idle"]
    /\ mu = [writer |-> 0, readers |-> {}, pending |-> 0]
    /\ call = [t \in Threads |-> NoCall]
    /\ hist = [k \in Keys |-> <<>>]
    /\ returned = [k \in Keys |-> 0]
    /\ lastWrite = [k \in Keys |-> ErrKeyNotFound]
    /\ snap = NoSnap
    /\ lastOp = [op |-> "NewDB", key |-> <<>>, res |-> Ok(<<>>), again |-> FALSE]

Next ==
    \/ \E k \in Keys, v \in Values \cup {HugeValue} : Put(k, v)
    \/ \E k \in Keys : Delete(k)
    \/ \E k \in Keys : GetOp(k)
    \/ Merge
    \/ Close
    \/ NewDB

Spec == Init /\ [][Next]_vars

\* ------------------------------------------------- Merge stopped half-way
\* The file operations of Merge after the copy loop, in program order:
\*   for each old segment in ascending ID order: remove <id>.data, then
\*   <id>.hint; rename merge.data to <target>.data; rename merge.hint to
\*   <target>.hint.
\* DiskAfterRemoves(nData, nHint): the old files left once the first nData
\* data files and the first nHint hint files of the old segments are removed.
DataAfterRemoves(nData) ==
    Restrict(dataFiles, DOMAIN dataFiles \ {SortInts(RetiredIDs)[i] : i \in 1..nData})

HintAfterRemoves(nHint) ==
    Restrict(hintFiles, DOMAIN hintFiles \ {SortInts(RetiredIDs)[i] : i \in 1..nHint})

\* the points between two file operations of Merge
CrashPoints ==
    {[at |-> "created merge.data", n |-> 0], [at |-> "created merge.hint", n |-> 0],
     [at |-> "renamed merge.data", n |-> 0], [at |-> "renamed merge.hint", n |-> 0]}
    \cup {[at |-> "removed data", n |-> j] : j \in 1..Cardinality(RetiredIDs)}
    \cup {[at |-> "removed hint", n |-> j] : j \in 1..Cardinality(RetiredIDs)}

\* the process stops inside Merge at crash point cp; the directory keeps
\* what the file operations before cp did to it
MergeCrash ==
    /\ open
    /\ faults < MaxFaults
    /\ olderFiles # {}
    /\ \E ord \in Orderings(MergeKeys), cp \in CrashPoints :
        LET targetID == TargetID
            n == Cardinality(RetiredIDs)
        IN  /\ MergeLoopErr(ord) = "nil"
            /\ dataFiles' =
                 CASE cp.at \in {"created merge.data", "created merge.hint"} -> dataFiles
                   [] cp.at = "removed data" -> DataAfterRemoves(cp.n)
                   [] cp.at = "removed hint" -> DataAfterRemoves(cp.n)
                   [] OTHER -> (targetID :> MergedData(ord)) @@ DataAfterRemoves(n)
            /\ hintFiles' =
                 CASE cp.at \in {"created merge.data", "created merge.hint"} -> hintFiles
                   [] cp.at = "removed data" -> HintAfterRemoves(cp.n - 1)
                   [] cp.at = "removed hint" -> HintAfterRemoves(cp.n)
                   [] cp.at = "renamed merge.data" -> HintAfterRemoves(n)
                   [] OTHER -> (targetID :> MergedHint(ord)) @@ HintAfterRemoves(n)
            /\ tempFiles' =
                 CASE cp.at = "created merge.data" -> {"merge.data"}
                   [] cp.at = "renamed merge.data" -> {"merge.hint"}
                   [] cp.at = "renamed merge.hint" -> {}
                   [] OTHER -> {"merge.data", "merge.hint"}
            /\ lastOp' = Op("MergeCrash", <<>>, Err(cp.at))
    /\ open' = FALSE
    /\ snap' = [how |-> "Crash", get |-> GetAll, closed |-> NoHandles]
    /\ faults' = faults + 1
    /\ UNCHANGED <<dbVars, clock, lastWrite, concVars, routerVars, ioLog>>

NextCrash == Next \/ MergeCrash

SpecCrash == Init /\ [][NextCrash]_vars

\* ------------------------------------------------ Merge with an I/O error
\* the calls of Merge that can return an error, in program order
FailPoints ==
    {"open merge.data", "open merge.hint", "copy loop", "sync", "close",
     "rename merge.data", "rename merge.hint", "mmap"}

\* DB.Merge when the call fp fails: the old segments are closed and removed
\* before the renames; the deferred cleanup removes what is left of
\* merge.data and merge.hint
MergeFail ==
    /\ open
    /\ faults < MaxFaults
    /\ olderFiles # {}
    /\ \E ord \in Orderings(MergeKeys), fp \in FailPoints :
        LET targetID == TargetID
            swapping == fp \in {"rename merge.data", "rename merge.hint", "mmap"}
        IN  /\ MergeLoopErr(ord) = "nil"
            /\ olderFiles' = IF swapping THEN olderFiles \ RetiredIDs ELSE olderFiles
            /\ dataFiles' =
                 CASE fp = "rename merge.data" -> Restrict(dataFiles, DOMAIN dataFiles \ RetiredIDs)
                   [] fp \in {"rename merge.hint", "mmap"} ->
                        (targetID :> MergedData(ord)) @@ Restrict(dataFiles, DOMAIN dataFiles \ RetiredIDs)
                   [] OTHER -> dataFiles
            /\ hintFiles' =
                 CASE fp \in {"rename merge.data", "rename merge.hint"} ->
                        Restrict(hintFiles, DOMAIN hintFiles \ RetiredIDs)
                   [] fp = "mmap" ->
                        (targetID :> MergedHint(ord)) @@ Restrict(hintFiles, DOMAIN hintFiles \ RetiredIDs)
                   [] OTHER -> hintFiles
            /\ tempFiles' = {}
            /\ lastOp' = Op("Merge", <<>>, Err(fp))
    /\ faults' = faults + 1
    /\ UNCHANGED <<open, activeFileID, keyDir, writeOffset, activeFile, clock, lastWrite, snap,
                   concVars, routerVars, ioLog>>

NextFault == Next \/ MergeFail

SpecFault == Init /\ [][NextFault]_vars

\* ------------------------------------------------------- damaged segments
\* the record with its last byte overwritten by 0xFF, the CRC field untouched
CorruptRecord(rec) ==
    IF rec.val # <<>> THEN [rec EXCEPT !.val[Len(rec.val)] = 255]
    ELSE [rec EXCEPT !.key[Len(rec.key)] = 255]

\* something outside the program overwrites a byte of a closed store's file
Corrupt ==
    /\ ~open
    /\ faults < MaxFaults
    /\ \E id \in DOMAIN dataFiles : \E i \in 1..Len(dataFiles[id]) :
        /\ ~IsTorn(dataFiles[id][i])
        /\ CrcOk(dataFiles[id][i])
        /\ dataFiles' = [dataFiles EXCEPT ![id][i] = CorruptRecord(@)]
    /\ lastOp' = Op("Corrupt", <<>>, Ok(<<>>))
    /\ faults' = faults + 1
    /\ UNCHANGED <<hintFiles, tempFiles, open, dbVars, clock, lastWrite, snap, concVars, routerVars, ioLog>>

NextCorrupt == Next \/ Corrupt

SpecCorrupt == Init /\ [][NextCorrupt]_vars

\* ------------------------------------------------ hint files deleted by hand
\* the .hint files of a closed store are deleted, so that the next NewDB
\* has to scan every data file
RemoveHints ==
    /\ ~open
    /\ snap.how = "Close"
    /\ DOMAIN hintFiles # {}
    /\ hintFiles' = EmptyMap
    /\ snap' = [snap EXCEPT !.how = "HintsRemoved"]
    /\ lastOp' = Op("RemoveHints", <<>>, Ok(<<>>))
    /\ UNCHANGED <<dataFiles, tempFiles, open, dbVars, clock, lastWrite, faults, concVars, routerVars, ioLog>>

NextNoHint == Next \/ RemoveHints

SpecNoHint == Init /\ [][NextNoHint]_vars


\* ------------------------------------ a store with many live keys
\* the keys written when segments are filled: one more than Keys, so that
\* the segments outside the active one can hold a live record of each of Keys
BulkKeys == Keys \cup {<<4>>}

\* DB.Put of a caller that writes up to MaxBulkWrites records
BulkPut(key, value) ==
    /\ open
    /\ clock < MaxBulkWrites
    /\ PutBody(key, value)
    /\ UNCHANGED <<concVars, routerVars, ioLog>>

NextBulk ==
    \/ \E k \in BulkKeys : BulkPut(k, <<6, 7>>)
    \/ \E k \in Keys : GetOp(k)
    \/ Merge
    \/ Close
    \/ NewDB

SpecBulk == Init /\ [][NextBulk]_vars

\* ------------------------------------ the file system calls of a call
\* one call on a file: <id>.data, <id>.hint, or merge.data / merge.hint on
\* their way to segment id
FileCall(c, name, id) == [call |-> c, file |-> [name |-> name, id |-> id]]

\* variant: the rotation closes the handle before it syncs it
newActiveFileCalls_closeFirst(id) ==
    <<FileCall("Close", "data", activeFileID), FileCall("Sync", "data", activeFileID),
      FileCall("NewMmapReader", "data", activeFileID), FileCall("OpenFile", "data", id)>>

\* the calls of DB.newActiveFile(id) while an active file is open
newActiveFileCalls(id) ==
    <<FileCall("Sync", "data", activeFileID), FileCall("Close", "data", activeFileID),
      FileCall("NewMmapReader", "data", activeFileID), FileCall("OpenFile", "data", id)>>

\* the calls of a Put or Delete that reaches the rotation check
AppendCalls(recordSize) ==
    IF NeedsRotation(recordSize)
    THEN newActiveFileCalls(activeFileID + 1)
            \o <<FileCall("Write", "data", activeFileID + 1)>>
    ELSE <<FileCall("Write", "data", activeFileID)>>

\* the calls of the copy loop of Merge for the keys in visiting order
RECURSIVE CopyCalls(_, _)
CopyCalls(ord, target) ==
    IF ord = <<>> THEN <<>>
    ELSE <<FileCall("ReadAt", "data", keyDir[Head(ord)].FileID),
           FileCall("ReadAt", "data", keyDir[Head(ord)].FileID),
           FileCall("Write", "merge.data", target),
           FileCall("Write", "merge.hint", target),
           FileCall("Write", "merge.hint", target)>> \o CopyCalls(Tail(ord), target)

\* the calls of the loop of Merge that removes the old segments ids
RECURSIVE RemoveCalls(_)
RemoveCalls(ids) ==
    IF ids = <<>> THEN <<>>
    ELSE <<FileCall("Close", "data", Head(ids)), FileCall("Remove", "data", Head(ids)),
           FileCall("Remove", "hint", Head(ids))>> \o RemoveCalls(Tail(ids))

\* the calls of a Merge that finds segments to merge and meets no error,
\* the deferred cleanup at the end
MergeCalls(ord) ==
    <<FileCall("OpenFile", "merge.data", TargetID), FileCall("OpenFile", "merge.hint", TargetID)>>
    \o CopyCalls(ord, TargetID)
    \o <<FileCall("Sync", "merge.data", TargetID), FileCall("Sync", "merge.hint", TargetID),
         FileCall("Close", "merge.data", TargetID), FileCall("Close", "merge.hint", TargetID)>>
    \o RemoveCalls(SortInts(RetiredIDs))
    \o <<FileCall("Rename", "merge.data", TargetID), FileCall("Rename", "merge.hint", TargetID),
         FileCall("NewMmapReader", "data", TargetID),
         FileCall("Close", "merge.data", TargetID), FileCall("Close", "merge.hint", TargetID),
         FileCall("Stat", "merge.data", TargetID), FileCall("Stat", "merge.hint", TargetID)>>

\* Put, Delete and Merge of a single caller, their file system calls noted
LoggedPut(key, value) ==
    /\ open
    /\ clock < MaxWrites
    /\ PutBody(key, value)
    /\ ioLog' = IF Uint32Len(value) = tombstoneValueSize THEN <<>>
                ELSE AppendCalls(HeaderSize + Len(key) + Len(value))
    /\ UNCHANGED <<concVars, routerVars>>

LoggedDelete(key) ==
    /\ open
    /\ clock < MaxWrites
    /\ DeleteBody(key)
    /\ ioLog' = AppendCalls(HeaderSize + Len(key))
    /\ UNCHANGED <<concVars, routerVars>>

LoggedMerge ==
    /\ open
    /\ MergeBody
    /\ ioLog' = IF olderFiles = {} THEN <<>>
                ELSE MergeCalls(CHOOSE ord \in Orderings(MergeKeys) :
                                    dataFiles'[TargetID] = MergedData(ord))
    /\ UNCHANGED <<concVars, routerVars>>

NextIO ==
    \/ \E k \in Keys, v \in Values \cup {HugeValue} : LoggedPut(k, v)
    \/ \E k \in Keys : LoggedDelete(k)
    \/ LoggedMerge
    \/ \E k \in Keys : GetOp(k)
    \/ Close
    \/ NewDB

SpecIO == Init /\ [][NextIO]_vars

\* ------------------------------------ Put and Delete with an I/O error
\* the calls of Put and Delete that can return an error, in program order:
\* NewMmapReader and os.OpenFile inside newActiveFile, then activeFile.Write
WriteFailPoints == {"mmap", "create", "write"}

\* how many bytes of the record a failed Write may leave in the file: none,
\* the header alone, all but the last byte
ShortWrites(recordSize) == {0, HeaderSize, recordSize - 1}

\* Put (isDelete = FALSE) or Delete when the call fp fails.  newActiveFile has
\* synced and closed the active file before NewMmapReader runs and has stored
\* the reader before os.OpenFile runs; a failed Write leaves writeOffset and
\* the KeyDir alone.
WriteFail(name, key, vsz, val) ==
    /\ faults < MaxFaults
    /\ clock < MaxWrites
    /\ \E fp \in WriteFailPoints :
        LET recordSize == HeaderSize + Len(key) + Len(val)
        IN  CASE fp = "mmap" ->
                   /\ NeedsRotation(recordSize)
                   /\ activeFile' = "closed"
                   /\ lastOp' = Op(name, key, Err("mmap"))
                   /\ UNCHANGED <<diskVars, activeFileID, olderFiles, keyDir, writeOffset, clock>>
              [] fp = "create" ->
                   /\ NeedsRotation(recordSize)
                   /\ activeFile' = "closed"
                   /\ olderFiles' = olderFiles \cup {activeFileID}
                   /\ lastOp' = Op(name, key, Err("open"))
                   /\ UNCHANGED <<diskVars, activeFileID, keyDir, writeOffset, clock>>
              [] fp = "write" ->
                   /\ ~WriteOnClosed(recordSize)
                   /\ \E n \in ShortWrites(recordSize) :
                       LET st == IF NeedsRotation(recordSize)
                                 THEN newActiveFile(activeFileID + 1) ELSE NoRotation
                           rec == EncodeRecord(clock + 1, key, vsz, val)
                       IN  /\ dataFiles' = IF n = 0 THEN st.dataFiles
                                           ELSE [st.dataFiles EXCEPT
                                                   ![st.activeFileID] = Append(@, Torn(rec, n))]
                           /\ olderFiles' = st.olderFiles
                           /\ activeFileID' = st.activeFileID
                           /\ writeOffset' = st.writeOffset
                   /\ activeFile' = "open"
                   /\ clock' = clock + 1
                   /\ lastOp' = Op(name, key, Err("write"))
                   /\ UNCHANGED <<hintFiles, tempFiles, keyDir>>
    /\ faults' = faults + 1
    /\ snap' = NoSnap
    /\ UNCHANGED <<open, lastWrite, concVars, routerVars, ioLog>>

PutFail(key, value) ==
    /\ open
    /\ WriteFail("Put", key, Uint32Len(value), value)

DeleteFail(key) ==
    /\ open
    /\ WriteFail("Delete", key, tombstoneValueSize, <<>>)

NextWriteFault ==
    \/ Next
    \/ \E k \in Keys, v \in Values : PutFail(k, v)
    \/ \E k \in Keys : DeleteFail(k)

SpecWriteFault == Init /\ [][NextWriteFault]_vars


\* ------------------------------------ the process stops inside a Write
\* how many bytes of the record are in the file when the process stops inside
\* activeFile.Write: part of the header, the header alone, all but the last
\* byte
CutPoints(recordSize) == {4, HeaderSize, recordSize - 1}

\* the process stops inside the Write of a Put or Delete, after the rotation
\* if one was due; the directory keeps the bytes written so far
WriteCrash(name, key, vsz, val) ==
    /\ faults < MaxFaults
    /\ clock < MaxWrites
    /\ LET recordSize == HeaderSize + Len(key) + Len(val)
           st == IF NeedsRotation(recordSize)
                 THEN newActiveFile(activeFileID + 1) ELSE NoRotation
           rec == EncodeRecord(clock + 1, key, vsz, val)
       IN  /\ ~WriteOnClosed(recordSize)
           /\ \E n \in CutPoints(recordSize) :
                 dataFiles' = [st.dataFiles EXCEPT
                                 ![st.activeFileID] = Append(@, Torn(rec, n))]
    /\ open' = FALSE
    /\ snap' = [how |-> "WriteCrash", get |-> GetAll, closed |-> NoHandles]
    /\ lastOp' = Op(name, key, Err("stopped"))
    /\ clock' = clock + 1
    /\ faults' = faults + 1
    /\ UNCHANGED <<hintFiles, tempFiles, dbVars, lastWrite, concVars, routerVars, ioLog>>

PutCrash(key, value) ==
    /\ open
    /\ WriteCrash("Put", key, Uint32Len(value), value)

DeleteCrash(key) ==
    /\ open
    /\ WriteCrash("Delete", key, tombstoneValueSize, <<>>)

NextRecover ==
    \/ Next
    \/ \E k \in Keys, v \in Values : PutCrash(k, v)
    \/ \E k \in Keys : DeleteCrash(k)
    \/ Corrupt

SpecRecover == Init /\ [][NextRecover]_vars


\* ------------------------------------------------ several callers, one store
\* A goroutine calls Put, Delete, Get or Merge ("idle" -> "call"), takes
\* DB.mu ("locked"), runs the body ("ran") and returns through the deferred
\* Unlock / RUnlock ("idle").
IsWrite(c) == c.op \in {"Put", "Delete"}

PendingWrites == Cardinality({t \in Threads : pc[t] \in {"call", "locked"} /\ IsWrite(call[t])})

\* a goroutine enters a call; a Get remembers in n the number of the latest
\* write to its key that has returned by now
CallPut(t, key, value) ==
    /\ open /\ pc[t] = "idle"
    /\ clock + PendingWrites < MaxConcWrites
    /\ call' = [call EXCEPT ![t] = [NoCall EXCEPT !.op = "Put", !.key = key, !.val = value]]
    /\ pc' = [pc EXCEPT ![t] = "call"]
    /\ UNCHANGED <<routerVars, ioLog, diskVars, dbVars, open, clock, lastWrite, snap, faults, lastOp, mu, hist, returned>>

CallDelete(t, key) ==
    /\ open /\ pc[t] = "idle"
    /\ clock + PendingWrites < MaxConcWrites
    /\ call' = [call EXCEPT ![t] = [NoCall EXCEPT !.op = "Delete", !.key = key]]
    /\ pc' = [pc EXCEPT ![t] = "call"]
    /\ UNCHANGED <<routerVars, ioLog, diskVars, dbVars, open, clock, lastWrite, snap, faults, lastOp, mu, hist, returned>>

CallGet(t, key) ==
    /\ open /\ pc[t] = "idle"
    /\ call' = [call EXCEPT ![t] = [NoCall EXCEPT !.op = "Get", !.key = key, !.n = returned[key]]]
    /\ pc' = [pc EXCEPT ![t] = "call"]
    /\ UNCHANGED <<routerVars, ioLog, diskVars, dbVars, open, clock, lastWrite, snap, faults, lastOp, mu, hist, returned>>

CallMerge(t) ==
    /\ open /\ pc[t] = "idle"
    /\ call' = [call EXCEPT ![t] = [NoCall EXCEPT !.op = "Merge"]]
    /\ pc' = [pc EXCEPT ![t] = "call"]
    /\ UNCHANGED <<routerVars, ioLog, diskVars, dbVars, open, clock, lastWrite, snap, faults, lastOp, mu, hist, returned>>

\* sync.RWMutex.Lock, first half: the caller takes the writers' mutex, which
\* it keeps until Unlock, and announces itself as the pending writer
LockAnnounce(t) ==
    /\ pc[t] = "call" /\ call[t].op # "Get"
    /\ mu.writer = 0 /\ mu.pending = 0
    /\ mu' = [mu EXCEPT !.pending = t]
    /\ UNCHANGED <<routerVars, ioLog, diskVars, dbVars, open, clock, lastWrite, snap, faults, lastOp, pc, call, hist, returned>>

\* sync.RWMutex: the pending writer gets the lock when all readers have
\* left; RLock waits while a writer holds the lock or is pending
Lock(t) ==
    /\ pc[t] = "call" /\ call[t].op # "Get"
    /\ mu.pending = t /\ mu.readers = {}
    /\ mu' = [mu EXCEPT !.writer = t, !.pending = 0]
    /\ pc' = [pc EXCEPT ![t] = "locked"]
    /\ UNCHANGED <<routerVars, ioLog, diskVars, dbVars, open, clock, lastWrite, snap, faults, lastOp, call, hist, returned>>

\* variant: RLock does not wait for the writer
RLock_ignoreWriter(t) ==
    /\ pc[t] = "call" /\ call[t].op = "Get"
    /\ mu' = [mu EXCEPT !.readers = @ \cup {t}]
    /\ pc' = [pc EXCEPT ![t] = "locked"]
    /\ UNCHANGED <<routerVars, ioLog, diskVars, dbVars, open, clock, lastWrite, snap, faults, lastOp, call, hist, returned>>

RLock(t) ==
    /\ pc[t] = "call" /\ call[t].op = "Get"
    /\ mu.writer = 0 /\ mu.pending = 0
    /\ mu' = [mu EXCEPT !.readers = @ \cup {t}]
    /\ pc' = [pc EXCEPT ![t] = "locked"]
    /\ UNCHANGED <<routerVars, ioLog, diskVars, dbVars, open, clock, lastWrite, snap, faults, lastOp, call, hist, returned>>

\* the bodies, run with the lock held; a write notes its number in n
RunPut(t) ==
    /\ pc[t] = "locked" /\ call[t].op = "Put"
    /\ PutBody(call[t].key, call[t].val)
    /\ hist' = [hist EXCEPT ![call[t].key] = Append(@, Ok(call[t].val))]
    /\ call' = [call EXCEPT ![t].n = Len(hist[call[t].key]) + 1]
    /\ pc' = [pc EXCEPT ![t] = "ran"]
    /\ UNCHANGED <<routerVars, ioLog, mu, returned>>

RunDelete(t) ==
    /\ pc[t] = "locked" /\ call[t].op = "Delete"
    /\ DeleteBody(call[t].key)
    /\ hist' = [hist EXCEPT ![call[t].key] = Append(@, ErrKeyNotFound)]
    /\ call' = [call EXCEPT ![t].n = Len(hist[call[t].key]) + 1]
    /\ pc' = [pc EXCEPT ![t] = "ran"]
    /\ UNCHANGED <<routerVars, ioLog, mu, returned>>

RunGet(t) ==
    /\ pc[t] = "locked" /\ call[t].op = "Get"
    /\ GetBody(call[t].key)
    /\ call' = [call EXCEPT ![t].res = Get(call[t].key)]
    /\ pc' = [pc EXCEPT ![t] = "ran"]
    /\ UNCHANGED <<routerVars, ioLog, mu, hist, returned>>

RunMerge(t) ==
    /\ pc[t] = "locked" /\ call[t].op = "Merge"
    /\ MergeBody
    /\ pc' = [pc EXCEPT ![t] = "ran"]
    /\ UNCHANGED <<routerVars, ioLog, mu, call, hist, returned>>

\* the deferred Unlock / RUnlock; the call has returned
Unlock(t) ==
    /\ pc[t] = "ran" /\ call[t].op # "Get"
    /\ mu' = [mu EXCEPT !.writer = 0]
    /\ returned' = IF IsWrite(call[t]) /\ call[t].n > returned[call[t].key]
                   THEN [returned EXCEPT ![call[t].key] = call[t].n] ELSE returned
    /\ pc' = [pc EXCEPT ![t] = "idle"]
    /\ call' = [call EXCEPT ![t] = NoCall]
    /\ UNCHANGED <<routerVars, ioLog, diskVars, dbVars, open, clock, lastWrite, snap, faults, lastOp, hist>>

\* variant: a Get that returns an error returns without RUnlock
RUnlock_onlyOnSuccess(t) ==
    /\ pc[t] = "ran" /\ call[t].op = "Get"
    /\ mu' = IF call[t].res.err = "nil" THEN [mu EXCEPT !.readers = @ \ {t}] ELSE mu
    /\ pc' = [pc EXCEPT ![t] = "idle"]
    /\ call' = [call EXCEPT ![t] = NoCall]
    /\ UNCHANGED <<routerVars, ioLog, diskVars, dbVars, open, clock, lastWrite, snap, faults, lastOp, hist, returned>>

\* the deferred RUnlock; the call has returned
RUnlock(t) ==
    /\ pc[t] = "ran" /\ call[t].op = "Get"
    /\ mu' = [mu EXCEPT !.readers = @ \ {t}]
    /\ pc' = [pc EXCEPT ![t] = "idle"]
    /\ call' = [call EXCEPT ![t] = NoCall]
    /\ UNCHANGED <<routerVars, ioLog, diskVars, dbVars, open, clock, lastWrite, snap, faults, lastOp, hist, returned>>

NextConc ==
    \E t \in Threads :
        \/ \E k \in Keys, v \in Values : CallPut(t, k, v)
        \/ \E k \in Keys : CallDelete(t, k)
        \/ \E k \in Keys : CallGet(t, k)
        \/ CallMerge(t)
        \/ LockAnnounce(t) \/ Lock(t) \/ RLock(t)
        \/ RunPut(t) \/ RunDelete(t) \/ RunGet(t) \/ RunMerge(t)
        \/ Unlock(t) \/ RUnlock(t)

SpecConc == Init /\ [][NextConc]_vars

\* sync.RWMutex hands the lock to a goroutine that waits for it: the
\* writers' mutex is fair, a pending Lock keeps new readers out and Unlock
\* wakes the readers that wait, so a waiter that could take its step again
\* and again does take it.  A
\* goroutine that holds the lock runs on.
FairConc ==
    \A t \in Threads :
        /\ SF_vars(LockAnnounce(t))
        /\ SF_vars(Lock(t))
        /\ SF_vars(RLock(t))
        /\ WF_vars(RunPut(t) \/ RunDelete(t) \/ RunGet(t) \/ RunMerge(t))
        /\ WF_vars(Unlock(t) \/ RUnlock(t))

\* the calls explored under fair scheduling
FairCallPut(t, key, value) ==
    /\ clock + PendingWrites < MaxFairWrites
    /\ CallPut(t, key, value)

FairCallDelete(t, key) ==
    /\ clock + PendingWrites < MaxFairWrites
    /\ CallDelete(t, key)

NextConcFair ==
    \E t \in Threads :
        \/ \E k \in Keys, v \in Values : FairCallPut(t, k, v)
        \/ \E k \in Keys : FairCallDelete(t, k)
        \/ \E k \in Keys : CallGet(t, k)
        \/ CallMerge(t)
        \/ LockAnnounce(t) \/ Lock(t) \/ RLock(t)
        \/ RunPut(t) \/ RunDelete(t) \/ RunGet(t) \/ RunMerge(t)
        \/ Unlock(t) \/ RUnlock(t)

SpecConcFair == Init /\ [][NextConcFair]_vars /\ FairConc

\* ------------------------------------ Merge in two steps under the lock
\* newKeyPos as the loop of Merge has built it, read back from the merged
\* segment id: the offset of the one record of each merged key
KeyPosIn(id) ==
    [k \in MergeKeys |->
        [FileID |-> id,
         Offset |-> OffsetOf(dataFiles[id],
                        CHOOSE i \in 1..Len(dataFiles[id]) : dataFiles[id][i].key = k)]]

\* Merge up to the re-open of the merged segment: merge.data and merge.hint
\* are written, the old segments closed and removed, the files renamed.  The
\* KeyDir still holds the old positions.  With nothing to merge the call
\* returns at once.
RunMergeSwap(t) ==
    /\ pc[t] = "locked" /\ call[t].op = "Merge"
    /\ IF olderFiles = {}
       THEN /\ lastOp' = Op("Merge", <<>>, Ok(<<>>))
            /\ pc' = [pc EXCEPT ![t] = "ran"]
            /\ UNCHANGED <<diskVars, dbVars>>
       ELSE \E ord \in Orderings(MergeKeys) :
            /\ MergeLoopErr(ord) = "nil"
            /\ dataFiles' = (TargetID :> MergedData(ord))
                            @@ Restrict(dataFiles, DOMAIN dataFiles \ RetiredIDs)
            /\ hintFiles' = (TargetID :> MergedHint(ord))
                            @@ Restrict(hintFiles, DOMAIN hintFiles \ RetiredIDs)
            /\ olderFiles' = {TargetID} \cup (olderFiles \ RetiredIDs)
            /\ tempFiles' = {}
            /\ pc' = [pc EXCEPT ![t] = "swapped"]
            /\ UNCHANGED <<activeFileID, keyDir, writeOffset, activeFile, lastOp>>
    /\ UNCHANGED <<open, clock, lastWrite, snap, faults, routerVars, ioLog, mu, call, hist, returned>>

\* the last loop of Merge: the KeyDir takes the positions of newKeyPos
RunMergeIndex(t) ==
    /\ pc[t] = "swapped"
    /\ keyDir' = KeyPosIn(Min(olderFiles)) @@ keyDir
    /\ lastOp' = Op("Merge", <<>>, Ok(<<>>))
    /\ pc' = [pc EXCEPT ![t] = "ran"]
    /\ UNCHANGED <<diskVars, activeFileID, olderFiles, writeOffset, activeFile, open, clock,
                   lastWrite, snap, faults, routerVars, ioLog, mu, call, hist, returned>>

\* a goroutine enters Put, one of up to MaxStepWrites calls
StepCallPut(t, key, value) ==
    /\ open /\ pc[t] = "idle"
    /\ clock + PendingWrites < MaxStepWrites
    /\ call' = [call EXCEPT ![t] = [NoCall EXCEPT !.op = "Put", !.key = key, !.val = value]]
    /\ pc' = [pc EXCEPT ![t] = "call"]
    /\ UNCHANGED <<routerVars, ioLog, diskVars, dbVars, open, clock, lastWrite, snap, faults, lastOp, mu, hist, returned>>

NextConcSteps ==
    \E t \in Threads :
        \/ \E k \in Keys, v \in Values : StepCallPut(t, k, v)
        \/ \E k \in Keys : CallGet(t, k)
        \/ CallMerge(t)
        \/ LockAnnounce(t) \/ Lock(t) \/ RLock(t)
        \/ RunPut(t) \/ RunGet(t)
        \/ RunMergeSwap(t) \/ RunMergeIndex(t)
        \/ Unlock(t) \/ RUnlock(t)

SpecConcSteps == Init /\ [][NextConcSteps]_vars

\* ------------------------------------------------------- the sharded router
\* A ShardedDB owns numShards stores, shard i under <root>/shard-<i>.  A
\* shard is a DB value of its own: its directory, its fields and its lock.
RouterKeys == {<<2>>, <<3>>, <<1, 3>>}

ShardIDs == DOMAIN sdb.shards

\* NewDB on a directory that does not exist yet
NewShard(i) ==
    [dir |-> i,
     dataFiles |-> (0 :> <<>>),
     hintFiles |-> EmptyMap,
     activeFileID |-> 0,
     olderFiles |-> {},
     keyDir |-> EmptyMap,
     writeOffset |-> 0,
     activeFile |-> "open",
     mu |-> [writer |-> 0, readers |-> {}]]

\* ---- hash/fnv, New32a: a 32-bit hash kept as two 16-bit halves
Half == 65536
offset32 == [hi |-> 33052, lo |-> 40389]       \* 2166136261 = 0x811C9DC5
prime32Low == 403                              \* 16777619 = 2^24 + 0x193

RECURSIVE XorBits(_, _, _)
XorBits(a, b, n) ==
    IF n = 0 THEN 0
    ELSE (((a % 2) + (b % 2)) % 2) + 2 * XorBits(a \div 2, b \div 2, n - 1)

\* hash ^= uint32(c)
XorByte(h, c) == [hi |-> h.hi, lo |-> ((h.lo \div 256) * 256) + XorBits(h.lo % 256, c, 8)]

\* hash *= prime32, modulo 2^32
MulPrime(h) ==
    LET low == h.lo * prime32Low
    IN  [hi |-> ((h.hi * prime32Low) + (low \div Half) + ((h.lo % 256) * 256)) % Half,
         lo |-> low % Half]

RECURSIVE fnvWrite(_, _, _)
fnvWrite(h, key, i) ==
    IF i > Len(key) THEN h ELSE fnvWrite(MulPrime(XorByte(h, key[i])), key, i + 1)

\* h.Write(key); h.Sum32()
Sum32(key) == fnvWrite(offset32, key, 1)

\* int(x) for a uint32 x, as sign and magnitude: the value itself where int
\* has 64 bits, its two's-complement reading where int has 32 bits
IntOf(x, bits) ==
    IF bits = 32 /\ x.hi >= Half \div 2
    THEN [neg |-> TRUE,
          mag |-> IF x.lo = 0 THEN [hi |-> Half - x.hi, lo |-> 0]
                  ELSE [hi |-> Half - 1 - x.hi, lo |-> Half - x.lo]]
    ELSE [neg |-> FALSE, mag |-> x]

\* Go's x % n for n > 0: the remainder has the sign of x
Rem(x, n) ==
    LET m == (((x.mag.hi % n) * (Half % n)) + (x.mag.lo % n)) % n
    IN  IF x.neg THEN 0 - m ELSE m

\* variant: the negative remainder is used as it is
getShard_noAbs(key) == Rem(IntOf(Sum32(key), intBits), sdb.numShards)

\* ShardedDB.getShard: the index of the shard responsible for the key
getShard(key) ==
    LET idx == Rem(IntOf(Sum32(key), intBits), sdb.numShards)
    IN  IF idx < 0 THEN 0 - idx ELSE idx

\* ---- the methods of DB, as functions of the shard they are called on
\* DB.Get
DBGet(db, key) ==
    IF key \notin DOMAIN db.keyDir THEN ErrKeyNotFound
    ELSE LET pos == db.keyDir[key] IN
         IF pos.FileID # db.activeFileID /\ pos.FileID \notin db.olderFiles
         THEN Err("file not found: internal error")
         ELSE IF pos.FileID = db.activeFileID /\ db.activeFile = "closed"
         THEN Err("file already closed")
         ELSE LET f == db.dataFiles[pos.FileID]
                  r == IF pos.FileID = db.activeFileID
                       THEN GetRead("disk", f, pos.Offset)
                       ELSE GetRead("mmap", f, pos.Offset)
              IN  IF r.err # "nil" THEN r
                  ELSE IF r.val.key # key THEN Err("key mismatch")
                  ELSE Ok(r.val.val)

\* DB.newActiveFile(activeFileID + 1)
DBRotate(db) ==
    [db EXCEPT !.olderFiles = @ \cup {db.activeFileID},
               !.dataFiles = IF db.activeFileID + 1 \in DOMAIN @ THEN @
                             ELSE (db.activeFileID + 1 :> <<>>) @@ @,
               !.activeFileID = @ + 1,
               !.writeOffset = 0,
               !.activeFile = "open"]

\* the append of Put and Delete at time now
DBAppend(db, key, vsz, val, isDelete, now) ==
    LET recordSize == HeaderSize + Len(key) + Len(val)
        st == IF db.writeOffset + recordSize > MaxFileSize THEN DBRotate(db) ELSE db
        pos == [FileID |-> st.activeFileID, Offset |-> st.writeOffset]
    IN  [st EXCEPT !.dataFiles[st.activeFileID] = Append(@, EncodeRecord(now, key, vsz, val)),
                   !.keyDir = IF isDelete THEN DelKey(@, key) ELSE SetKey(@, key, pos),
                   !.writeOffset = @ + recordSize]

\* the Write of a Put or Delete goes to a handle that was closed
DBWriteOnClosed(db, recordSize) ==
    db.writeOffset + recordSize <= MaxFileSize /\ db.activeFile = "closed"

\* DB.Put
DBPut(db, key, value, now) ==
    IF Uint32Len(value) = tombstoneValueSize
    THEN [db |-> db, res |-> Err("value too large")]
    ELSE IF DBWriteOnClosed(db, HeaderSize + Len(key) + Len(value))
    THEN [db |-> db, res |-> Err("file already closed")]
    ELSE [db |-> DBAppend(db, key, Uint32Len(value), value, FALSE, now), res |-> Ok(<<>>)]

\* DB.Delete
DBDelete(db, key, now) ==
    IF DBWriteOnClosed(db, HeaderSize + Len(key))
    THEN [db |-> db, res |-> Err("file already closed")]
    ELSE [db |-> DBAppend(db, key, tombstoneValueSize, <<>>, TRUE, now), res |-> Ok(<<>>)]

\* the error of a file operation names the file: shard directory and segment
PathErr(e, db) == [err |-> e, val |-> <<>>, path |-> <<db.dir, db.activeFileID>>]

\* DB.Close; ioError: the close of the active file returns an I/O error
DBClose(db, ioError) ==
    IF db.activeFile = "closed"
    THEN [db |-> db, res |-> PathErr("file already closed", db)]
    ELSE [db |-> [db EXCEPT !.activeFile = "closed"],
          res |-> IF ioError THEN PathErr("input/output error", db) ELSE Ok(<<>>)]

\* ---- DB.Merge on a shard; ord is the order in which the loop visits the keys
DBMergeKeys(db) == {k \in DOMAIN db.keyDir : db.keyDir[k].FileID # db.activeFileID}

DBMergeRead(db, key) ==
    LET pos == db.keyDir[key] IN
    IF pos.FileID \notin db.olderFiles THEN Err("file not found during merge")
    ELSE ReadRecord(db.dataFiles[pos.FileID], pos.Offset)

DBMergedHint(data, ord) ==
    [i \in 1..Len(ord) |->
        LET rec == data[i]
            off == OffsetOf(data, i)
        IN  [crc |-> ChecksumIEEE(HintCheckData(rec.ts, rec.ksz, rec.vsz, off, ord[i])),
             ts |-> rec.ts, ksz |-> rec.ksz, vsz |-> rec.vsz, off |-> off, key |-> ord[i]]]

DBMerge(db, ord) ==
    LET reads == [i \in 1..Len(ord) |-> DBMergeRead(db, ord[i])]
        bad == {i \in 1..Len(ord) : reads[i].err # "nil"}
        data == [i \in 1..Len(ord) |-> reads[i].val]
        targetID == Min(db.olderFiles)
        retired == db.olderFiles \ {db.activeFileID}
        newKeyPos == [k \in DBMergeKeys(db) |->
                         LET i == CHOOSE j \in 1..Len(ord) : ord[j] = k
                         IN  [FileID |-> targetID, Offset |-> OffsetOf(data, i)]]
    IN  IF db.olderFiles = {} THEN [db |-> db, res |-> Ok(<<>>)]
        ELSE IF bad # {} THEN [db |-> db, res |-> Err(reads[Min(bad)].err)]
        ELSE [db |-> [db EXCEPT
                        !.dataFiles = (targetID :> data) @@ Restrict(@, DOMAIN @ \ retired),
                        !.hintFiles = (targetID :> DBMergedHint(data, ord))
                                      @@ Restrict(@, DOMAIN @ \ retired),
                        !.olderFiles = {targetID} \cup (@ \ retired),
                        !.keyDir = newKeyPos @@ @],
              res |-> Ok(<<>>)]

\* ---- ShardedDB.Merge: the shards one after the other, up to the first error
\* the visiting orders the map iteration of each shard's Merge may take
MergeOrders ==
    LET all == [i \in ShardIDs |-> Orderings(DBMergeKeys(sdb.shards[i]))]
    IN  {ords \in [ShardIDs -> UNION {all[i] : i \in ShardIDs}] :
            \A i \in ShardIDs : ords[i] \in all[i]}

\* the loop over s.shards from shard i on; failing: the shards whose Merge
\* cannot create merge.data; st carries the shards, the shards db.Merge was
\* called on and the error that ends the loop
RECURSIVE mergeShards(_, _, _, _)
mergeShards(i, ords, failing, st) ==
    IF i = sdb.numShards \/ st.res.err # "nil" THEN st
    ELSE LET db == st.shards[i]
             r == IF i \in failing /\ db.olderFiles # {}
                  THEN [db |-> db, res |-> PathErr("open merge.data", db)]
                  ELSE DBMerge(db, ords[i])
         IN  mergeShards(i + 1, ords, failing,
                 [shards |-> [st.shards EXCEPT ![i] = r.db],
                  merged |-> st.merged \cup {i},
                  res |-> r.res])

ShardedMerge ==
    /\ ~sdb.closed
    /\ \E ords \in MergeOrders :
        LET st == mergeShards(0, ords, {}, [shards |-> sdb.shards, merged |-> {},
                                            res |-> Ok(<<>>)])
        IN  /\ sdb' = [sdb EXCEPT !.shards = st.shards, !.merged = st.merged]
            /\ lastOp' = Op("Merge", <<>>, st.res)
    /\ UNCHANGED <<intBits, ioLog, singleStoreVars, clock, lastWrite, concVars>>

\* ---- ShardedDB.Close
\* variant: the loop returns at the first shard whose Close fails
RECURSIVE closeShards_returnAtFirst(_, _, _)
RECURSIVE closeShards(_, _, _)
closeShards_returnAtFirst(i, fails, st) ==
    IF i = sdb.numShards \/ st.firstErr.err # "nil" THEN st
    ELSE LET r == DBClose(st.shards[i], i \in fails)
         IN  closeShards_returnAtFirst(i + 1, fails,
                 [shards |-> [st.shards EXCEPT ![i] = r.db],
                  closeRes |-> (i :> r.res) @@ st.closeRes,
                  firstErr |-> IF r.res.err # "nil" /\ st.firstErr.err = "nil"
                               THEN r.res ELSE st.firstErr])

\* the loop over s.shards from shard i on; st carries the shards, what each
\* Close returned and firstErr
closeShards(i, fails, st) ==
    IF i = sdb.numShards THEN st
    ELSE LET r == DBClose(st.shards[i], i \in fails)
         IN  closeShards(i + 1, fails,
                 [shards |-> [st.shards EXCEPT ![i] = r.db],
                  closeRes |-> (i :> r.res) @@ st.closeRes,
                  firstErr |-> IF r.res.err # "nil" /\ st.firstErr.err = "nil"
                               THEN r.res ELSE st.firstErr])

\* ---- the calls of a single caller of the router
\* s.getShard(key).Put / Delete / Get on shard i, lock to unlock
RunOn(i, name, key, value) ==
    LET db == sdb.shards[i]
        r == CASE name = "Put" -> DBPut(db, key, value, clock + 1)
               [] name = "Delete" -> DBDelete(db, key, clock + 1)
               [] name = "Get" -> [db |-> db, res |-> DBGet(db, key)]
        wrote == name # "Get" /\ r.res.err # "value too large"
    IN  /\ sdb' = [sdb EXCEPT !.shards[i] = r.db]
        /\ clock' = IF wrote THEN clock + 1 ELSE clock
        /\ lastWrite' = IF name = "Get" \/ r.res.err # "nil" THEN lastWrite
                        ELSE [lastWrite EXCEPT ![key] =
                                 IF name = "Put" THEN Ok(value) ELSE ErrKeyNotFound]
        /\ lastOp' = Op(name, key, r.res)

ShardedPut(key, value) ==
    /\ ~sdb.closed
    /\ clock < MaxRouterWrites
    /\ RunOn(getShard(key), "Put", key, value)
    /\ UNCHANGED <<intBits, ioLog, singleStoreVars, concVars>>

ShardedDelete(key) ==
    /\ ~sdb.closed
    /\ clock < MaxRouterWrites
    /\ RunOn(getShard(key), "Delete", key, <<>>)
    /\ UNCHANGED <<intBits, ioLog, singleStoreVars, concVars>>

ShardedGet(key) ==
    /\ ~sdb.closed
    /\ RunOn(getShard(key), "Get", key, <<>>)
    /\ UNCHANGED <<intBits, ioLog, singleStoreVars, concVars>>

\* ShardedDB.Close; fails: the shards whose active file reports an I/O error
\* when it is closed
ShardedClose(fails) ==
    /\ fails \subseteq ShardIDs
    /\ LET st == closeShards(0, fails, [shards |-> sdb.shards, closeRes |-> EmptyMap,
                                        firstErr |-> Ok(<<>>)])
       IN  /\ sdb' = [sdb EXCEPT !.shards = st.shards, !.closed = TRUE,
                                 !.closeRes = st.closeRes]
           /\ lastOp' = Op("Close", <<>>, st.firstErr)
    /\ UNCHANGED <<intBits, ioLog, singleStoreVars, clock, lastWrite, concVars>>

\* NewShardedDB(dir, n) on a directory that does not exist yet
NewShardedDB(n) ==
    LET numShards == IF n <= 0 THEN 1 ELSE n
    IN  [shards |-> [i \in 0..(numShards - 1) |-> NewShard(i)],
         numShards |-> numShards,
         closed |-> FALSE,
         closeRes |-> EmptyMap,
         merged |-> {}]

\* the state NewShardedDB returns, on a platform with a 32-bit or 64-bit int;
\* no single store is open beside the router
InitRouter ==
    /\ intBits \in {32, 64}
    /\ ioLog = <<>>
    /\ \E n \in (0 - 1)..MaxShards : sdb = NewShardedDB(n)
    /\ dataFiles = EmptyMap
    /\ hintFiles = EmptyMap
    /\ tempFiles = {}
    /\ open = FALSE
    /\ activeFile = "closed"
    /\ activeFileID = 0
    /\ olderFiles = {}
    /\ keyDir = EmptyMap
    /\ writeOffset = 0
    /\ clock = 0
    /\ faults = 0
    /\ pc = [t \in Threads |-> "idle"]
    /\ mu = [writer |-> 0, readers |-> {}, pending |-> 0]
    /\ call = [t \in Threads |-> NoCall]
    /\ hist = [k \in Keys |-> <<>>]
    /\ returned = [k \in Keys |-> 0]
    /\ lastWrite = [k \in RouterKeys |-> ErrKeyNotFound]
    /\ snap = NoSnap
    /\ lastOp = [op |-> "NewShardedDB", key |-> <<>>, res |-> Ok(<<>>), again |-> FALSE]

NextRouter ==
    \/ \E k \in RouterKeys, v \in Values \cup {HugeValue} : ShardedPut(k, v)
    \/ \E k \in RouterKeys : ShardedDelete(k)
    \/ \E k \in RouterKeys : ShardedGet(k)
    \/ ShardedMerge
    \/ \E fails \in SUBSET (0..(MaxShards - 1)) : ShardedClose(fails)

SpecRouter == InitRouter /\ [][NextRouter]_vars

\* ------------------------------------------ the router with an I/O error
\* ShardedDB.Merge when the Merge of shard f, which has segments to merge,
\* cannot create merge.data
ShardedMergeFail(f) ==
    /\ ~sdb.closed
    /\ faults < MaxFaults
    /\ f \in ShardIDs /\ sdb.shards[f].olderFiles # {}
    /\ \E ords \in MergeOrders :
        LET st == mergeShards(0, ords, {f}, [shards |-> sdb.shards, merged |-> {},
                                             res |-> Ok(<<>>)])
        IN  /\ sdb' = [sdb EXCEPT !.shards = st.shards, !.merged = st.merged]
            /\ lastOp' = Op("Merge", <<>>, st.res)
    /\ faults' = faults + 1
    /\ UNCHANGED <<intBits, ioLog, diskVars, dbVars, open, snap, clock, lastWrite, concVars>>

NextRouterFault ==
    \/ NextRouter
    \/ \E f \in 0..(MaxShards - 1) : ShardedMergeFail(f)

SpecRouterFault == InitRouter /\ [][NextRouterFault]_vars

\* ------------------------------------------------ several callers, one router
\* A goroutine calls Put, Delete, Get or Merge of the router.  getShard picks
\* the shard ("call"); the goroutine takes that shard's DB.mu ("locked"),
\* then runs the body and returns through the deferred Unlock / RUnlock in
\* one step.  ShardedDB.Merge starts at shard 0 and goes on to the next shard
\* after each unlock, up to the first error.
ShardPendingWrites ==
    Cardinality({t \in Threads : pc[t] \in {"call", "locked"} /\ IsWrite(call[t])})

RouterCall(t, name, key, value) ==
    /\ ~sdb.closed /\ pc[t] = "idle"
    /\ IsWrite([op |-> name]) => clock + ShardPendingWrites < MaxConcWrites
    /\ call' = [call EXCEPT ![t] = [NoCall EXCEPT !.op = name, !.key = key, !.val = value,
                                        !.shard = IF name = "Merge" THEN 0 ELSE getShard(key)]]
    /\ pc' = [pc EXCEPT ![t] = "call"]
    /\ UNCHANGED <<routerVars, ioLog, singleStoreVars, clock, lastWrite, lastOp, mu, hist, returned>>

\* variant: one lock for the whole router
ShardLock_oneLock(t) ==
    /\ pc[t] = "call" /\ call[t].op # "Get"
    /\ \A i \in ShardIDs : sdb.shards[i].mu.writer = 0 /\ sdb.shards[i].mu.readers = {}
    /\ sdb' = [sdb EXCEPT !.shards[call[t].shard].mu.writer = t]
    /\ pc' = [pc EXCEPT ![t] = "locked"]
    /\ UNCHANGED <<intBits, ioLog, singleStoreVars, clock, lastWrite, lastOp, mu, call, hist, returned>>

\* d.mu.Lock() of the shard
ShardLock(t) ==
    /\ pc[t] = "call" /\ call[t].op # "Get"
    /\ sdb.shards[call[t].shard].mu.writer = 0 /\ sdb.shards[call[t].shard].mu.readers = {}
    /\ sdb' = [sdb EXCEPT !.shards[call[t].shard].mu.writer = t]
    /\ pc' = [pc EXCEPT ![t] = "locked"]
    /\ UNCHANGED <<intBits, ioLog, singleStoreVars, clock, lastWrite, lastOp, mu, call, hist, returned>>

\* d.mu.RLock() of the shard
ShardRLock(t) ==
    /\ pc[t] = "call" /\ call[t].op = "Get"
    /\ sdb.shards[call[t].shard].mu.writer = 0
    /\ sdb' = [sdb EXCEPT !.shards[call[t].shard].mu.readers = @ \cup {t}]
    /\ pc' = [pc EXCEPT ![t] = "locked"]
    /\ UNCHANGED <<intBits, ioLog, singleStoreVars, clock, lastWrite, lastOp, mu, call, hist, returned>>

\* the shards after goroutine t has released the lock it holds on shard i
Released(shards, i, t) ==
    [shards EXCEPT ![i].mu = [writer |-> IF @.writer = t THEN 0 ELSE @.writer,
                              readers |-> @.readers \ {t}]]

\* the body of Put, Delete or Get with the lock of the shard held, and the
\* deferred Unlock / RUnlock
ShardRun(t) ==
    /\ pc[t] = "locked" /\ call[t].op # "Merge"
    /\ LET i == call[t].shard
           db == sdb.shards[i]
           r == CASE call[t].op = "Put" -> DBPut(db, call[t].key, call[t].val, clock + 1)
                  [] call[t].op = "Delete" -> DBDelete(db, call[t].key, clock + 1)
                  [] call[t].op = "Get" -> [db |-> db, res |-> DBGet(db, call[t].key)]
       IN  /\ sdb' = [sdb EXCEPT !.shards = Released([sdb.shards EXCEPT ![i] = r.db], i, t)]
           /\ clock' = IF call[t].op = "Get" THEN clock ELSE clock + 1
           /\ lastOp' = Op(call[t].op, call[t].key, r.res)
    /\ call' = [call EXCEPT ![t] = NoCall]
    /\ pc' = [pc EXCEPT ![t] = "idle"]
    /\ UNCHANGED <<intBits, ioLog, singleStoreVars, lastWrite, mu, hist, returned>>

\* the body of DB.Merge with the lock of the shard held, and the deferred
\* Unlock; ShardedDB.Merge goes on to the next shard unless the Merge failed
ShardRunMerge(t) ==
    /\ pc[t] = "locked" /\ call[t].op = "Merge"
    /\ \E ord \in Orderings(DBMergeKeys(sdb.shards[call[t].shard])) :
        LET i == call[t].shard
            r == DBMerge(sdb.shards[i], ord)
            more == r.res.err = "nil" /\ i + 1 < sdb.numShards
        IN  /\ sdb' = [sdb EXCEPT !.shards = Released([sdb.shards EXCEPT ![i] = r.db], i, t)]
            /\ lastOp' = IF more THEN lastOp ELSE Op("Merge", <<>>, r.res)
            /\ call' = [call EXCEPT ![t] = IF more THEN [@ EXCEPT !.shard = i + 1] ELSE NoCall]
            /\ pc' = [pc EXCEPT ![t] = IF more THEN "call" ELSE "idle"]
    /\ UNCHANGED <<intBits, ioLog, singleStoreVars, clock, lastWrite, mu, hist, returned>>

NextRouterConc ==
    \E t \in Threads :
        \/ \E k \in RouterKeys, v \in Values : RouterCall(t, "Put", k, v)
        \/ \E k \in RouterKeys : RouterCall(t, "Delete", k, <<>>)
        \/ \E k \in RouterKeys : RouterCall(t, "Get", k, <<>>)
        \/ RouterCall(t, "Merge", <<>>, <<>>)
        \/ ShardLock(t) \/ ShardRLock(t)
        \/ ShardRun(t) \/ ShardRunMerge(t)

SpecRouterConc == InitRouter /\ [][NextRouterConc]_vars

\* ================================================================== claims
Range(f) == {f[x] : x \in DOMAIN f}

AllRecords == UNION {Range(dataFiles[id]) : id \in DOMAIN dataFiles}

HasTombstone(k) == \E r \in AllRecords : r.key = k /\ r.vsz = tombstoneValueSize

DamagedIn(ids) == \E id \in ids : \E i \in 1..Len(dataFiles[id]) : ~CrcOk(dataFiles[id][i])

ReopenedAs(how) == lastOp.op = "NewDB" /\ snap.how = how

SameReadsAsAtShutdown == lastOp.res.err = "nil" /\ open /\ GetAll = snap.get

\* C1: after any sequence of successful Put and Delete calls, with any
\* rotations (and here also with Merge and re-open in between), Get(k) is the
\* value of the last Put(k) if the last write to k was a Put and KeyNotFound
\* if it was a Delete or k was never written.
C1_RoundTrip == open => \A k \in Keys : Get(k) = lastWrite[k]

\* a key that was put, deleted and put again reads its new value from a
\* segment created by rotation
C1_Witness ==
    /\ open /\ lastOp.op = "Put" /\ olderFiles # {}
    /\ HasTombstone(lastOp.key) /\ Get(lastOp.key).err = "nil"
    /\ keyDir[lastOp.key].FileID = activeFileID /\ activeFileID > 0

\* C2: closing the store and re-opening the directory (no hint file there,
\* every segment is scanned) gives for every key the Get result it had just
\* before Close.
C2_RecoveryEquivalence ==
    ReopenedAs("Close") /\ DOMAIN hintFiles = {} => SameReadsAsAtShutdown

\* a re-open that scanned two segments, with a live key in the older one
\* and a deleted key
C2_Witness ==
    /\ ReopenedAs("Close") /\ open /\ DOMAIN hintFiles = {}
    /\ Cardinality(DOMAIN dataFiles) >= 2
    /\ \E k \in Keys : Get(k).err = "nil" /\ keyDir[k].FileID # activeFileID
    /\ \E k \in Keys : HasTombstone(k) /\ Get(k) = ErrKeyNotFound

\* C3: a successful Merge changes the Get result of no key.
C3_MergePreservesReads ==
    [][lastOp'.op = "Merge" /\ lastOp'.res.err = "nil" => GetAll' = GetAll]_vars

\* a Merge that collapsed two immutable segments: one key lives in the
\* merged segment, the other in the active segment
C3_Witness ==
    /\ lastOp.op = "Merge" /\ lastOp.res.err = "nil" /\ ~lastOp.again /\ open
    /\ olderFiles # {} /\ TargetID + 1 < activeFileID
    /\ \E k \in Keys : Get(k).err = "nil" /\ keyDir[k].FileID = TargetID
    /\ \E k \in Keys : Get(k).err = "nil" /\ keyDir[k].FileID = activeFileID

\* C4: after writes, a successful Merge, Close and re-open (the merged
\* segment is recovered from its hint file, the active one by scanning) every
\* key reads as before; a key deleted before the Merge is still KeyNotFound.
C4_MergeSurvivesRestart ==
    ReopenedAs("Close") /\ DOMAIN hintFiles # {} => SameReadsAsAtShutdown

\* a re-open that loaded two keys from a hint file
C4_Witness ==
    /\ ReopenedAs("Close") /\ open
    /\ \E id \in DOMAIN hintFiles : Len(hintFiles[id]) >= 2 /\ id \in olderFiles
    /\ \E k \in Keys : Get(k).err = "nil" /\ keyDir[k].FileID \in DOMAIN hintFiles
                       /\ keyDir[k].Offset > 0
    /\ \E k \in Keys : Get(k).err = "nil" /\ keyDir[k].FileID = activeFileID

\* C5: if the process stops between two file operations of Merge, the
\* re-opened directory reads every key as before the Merge started.
C5_MergeCrashAtomic == ReopenedAs("Crash") => SameReadsAsAtShutdown

\* C6: a Merge that returns an error leaves no merge.data / merge.hint and
\* leaves older_files, the KeyDir, the segment files and every Get result as
\* they were.
C6_MergeErrorKeepsState ==
    [][lastOp'.op = "Merge" /\ lastOp'.res.err # "nil" =>
          /\ tempFiles' = {}
          /\ olderFiles' = olderFiles /\ keyDir' = keyDir
          /\ dataFiles' = dataFiles /\ hintFiles' = hintFiles
          /\ GetAll' = GetAll]_vars

C8_HintEquivalence ==
    /\ \A id \in DOMAIN hintFiles :
          /\ id \in DOMAIN dataFiles
          /\ loadHintFile(id, hintFiles[id], 1, EmptyMap)
                = loadKeyDir(id, dataFiles[id], 1, 0, EmptyMap)
    /\ ReopenedAs("HintsRemoved") => SameReadsAsAtShutdown
    /\ snap.how = "HintsRemoved" /\ open => GetAll = lastWrite

\* the hint file of two records written again by a Merge of the store that
\* was re-opened without hint files
C8_Witness ==
    /\ snap.how = "HintsRemoved" /\ open /\ lastOp.op = "Merge"
    /\ \E id \in DOMAIN hintFiles : Len(hintFiles[id]) >= 2

\* C9: a Merge that directly follows a Merge leaves the segment IDs, the set
\* of records of the immutable segment and every Get result as they were; at
\* most one immutable segment is left.
C9_MergeIdempotent ==
    [][lastOp'.op = "Merge" /\ lastOp'.again =>
          /\ DOMAIN dataFiles' = DOMAIN dataFiles
          /\ DOMAIN hintFiles' = DOMAIN hintFiles
          /\ olderFiles' = olderFiles /\ activeFileID' = activeFileID
          /\ Cardinality(olderFiles') <= 1
          /\ \A id \in olderFiles : Range(dataFiles'[id]) = Range(dataFiles[id])
          /\ GetAll' = GetAll]_vars

\* the second of two Merges in a row, on a merged segment of two records
C9_Witness ==
    /\ lastOp.op = "Merge" /\ lastOp.again /\ open
    /\ olderFiles # {} /\ Len(dataFiles[TargetID]) >= 2

\* the results a Get of key may return when the writes numbered from n on are
\* the ones it may observe (number 0: the key as it was before any write)
Observable(key, n) ==
    {hist[key][i] : i \in {j \in 1..Len(hist[key]) : j >= n}}
        \cup (IF n = 0 THEN {ErrKeyNotFound} ELSE {})

\* C10: a Get(k) that starts after a Put(k,v) or Delete(k) has returned
\* returns what that write or a later write to k calls for: never an older
\* value, never a value after a returned Delete no Put followed, never
\* KeyNotFound after a returned Put no Delete followed.
C10_GetSeesReturnedWrites ==
    \A t \in Threads :
        pc[t] = "ran" /\ call[t].op = "Get" =>
            call[t].res \in Observable(call[t].key, call[t].n)

\* a Get that started after the second write to its key had returned, while
\* another goroutine is inside a call
C10_Witness ==
    \E t \in Threads :
        /\ pc[t] = "ran" /\ call[t].op = "Get" /\ call[t].n >= 2
        /\ call[t].res.err = "nil"
        /\ hist[call[t].key][1] # call[t].res
        /\ \E u \in Threads \ {t} : pc[u] # "idle"

\* the record a KeyDir entry of key points at, if a record starts there
RecordOf(key) ==
    LET f == ReaderContent(keyDir[key].FileID)
    IN  IF RecordAt(f, keyDir[key].Offset) = 0 THEN <<>>
        ELSE <<f[RecordAt(f, keyDir[key].Offset)]>>

\* Merge is about to read a record that fails its checksum
MergeReadsDamage ==
    \E k \in MergeKeys : RecordOf(k) # <<>> /\ ~CrcOk(RecordOf(k)[1])

\* C12: a Merge that meets a record failing its CRC among the records it
\* copies returns Corruption and installs nothing; the merged segment a
\* successful Merge installs holds only records whose CRC validates.
C12_MergeGuardsCrc ==
    [][lastOp'.op = "Merge" =>
          /\ MergeReadsDamage =>
                /\ lastOp'.res = ErrDataCorruption
                /\ dataFiles' = dataFiles /\ hintFiles' = hintFiles
                /\ keyDir' = keyDir /\ olderFiles' = olderFiles
          /\ lastOp'.res.err = "nil" /\ olderFiles # {} =>
                \A i \in 1..Len(dataFiles'[TargetID]) :
                    CrcOk(dataFiles'[TargetID][i]) /\ ~IsTorn(dataFiles'[TargetID][i])]_vars

\* Merge refused to copy the damaged record of a segment that was opened
\* through its hint file
C12_Witness ==
    /\ lastOp.op = "Merge" /\ lastOp.res = ErrDataCorruption /\ open
    /\ MergeReadsDamage
    /\ \E k \in MergeKeys : keyDir[k].FileID \in DOMAIN hintFiles

\* the records of key on disk
RecordsOf(key) == {r \in AllRecords : r.key = key}

\* the newest record of key on disk is a tombstone that was written when the
\* key had no live record before it (none at all, or a tombstone)
DeletedWhileAbsent(key) ==
    \E r \in RecordsOf(key) :
        /\ r.vsz = tombstoneValueSize
        /\ \A q \in RecordsOf(key) : q.ts <= r.ts
        /\ \A q \in RecordsOf(key) :
              q.ts < r.ts /\ q.vsz # tombstoneValueSize =>
                  \E m \in RecordsOf(key) : q.ts < m.ts /\ m.ts < r.ts

\* C13: Delete of a key that is not in the KeyDir returns nil, appends a
\* tombstone for the key to the active segment and leaves Get(k) KeyNotFound;
\* after Close and re-open Get(k) is still KeyNotFound.
C13_DeleteAbsent ==
    [][/\ lastOp'.op = "Delete" /\ lastOp'.key \notin DOMAIN keyDir =>
             /\ lastOp'.res = Ok(<<>>)
             /\ LET f == dataFiles'[activeFileID']
                IN  /\ f # <<>>
                    /\ f[Len(f)] = EncodeRecord(clock', lastOp'.key, tombstoneValueSize, <<>>)
                    /\ FileSize(f) = writeOffset'
                    /\ activeFileID' = activeFileID =>
                          f = Append(dataFiles[activeFileID], f[Len(f)])
             /\ GetAll'[lastOp'.key] = ErrKeyNotFound
       /\ lastOp'.op = "NewDB" /\ snap'.how = "Close" =>
             /\ open'
             /\ \A k \in Keys : DeletedWhileAbsent(k)' => Get(k)' = ErrKeyNotFound]_vars

\* a store re-opened with the tombstone of a key that was never written, next
\* to a live key
C13_Witness ==
    /\ ReopenedAs("Close") /\ open
    /\ \E k \in Keys : /\ DeletedWhileAbsent(k)
                       /\ \A r \in RecordsOf(k) : r.vsz = tombstoneValueSize
                       /\ Get(k) = ErrKeyNotFound
    /\ \E k \in Keys : Get(k).err = "nil"

\* C14: Put of a value whose length is the tombstone sentinel 0xFFFFFFFF
\* returns an error and changes nothing (no record, no rotation, KeyDir and
\* write offset as before); no KeyDir entry points at a record that carries
\* the sentinel in ValueSize, and every record that carries it is a tombstone
\* without value bytes.
C14_SentinelRejected ==
    [][/\ (\E k \in Keys : Put(k, HugeValue)) =>
             /\ lastOp'.res.err # "nil"
             /\ UNCHANGED <<dataFiles, hintFiles, tempFiles, activeFileID, olderFiles,
                            keyDir, writeOffset, activeFile>>
       /\ \A k \in DOMAIN keyDir' :
             RecordOf(k)' # <<>> => RecordOf(k)'[1].vsz # tombstoneValueSize
       /\ \A r \in AllRecords' : r.vsz = tombstoneValueSize => r.val = <<>>]_vars

\* the rejected Put came when the value would not have fitted the active
\* segment, and no segment was added
C14_Witness ==
    /\ lastOp.op = "Put" /\ lastOp.res = Err("value too large") /\ open
    /\ writeOffset = MaxFileSize /\ olderFiles = {}
    /\ DOMAIN keyDir # {}

\* Get finds an open reader for the KeyDir entry of key
Resolves(key) ==
    \/ keyDir[key].FileID = activeFileID /\ activeFile = "open"
    \/ keyDir[key].FileID # activeFileID /\ keyDir[key].FileID \in olderFiles

\* C11: a Get that read a whole record at KeyDir[k] returns value bytes only
\* if the record passes the CRC check and its stored key is k, and then the
\* value of that record; if the CRC does not match or the stored key is
\* another key, it fails with Corruption.
C11_GetChecksRecord ==
    /\ lastOp.op = "Get" /\ open /\ lastOp.key \in DOMAIN keyDir
    /\ Resolves(lastOp.key)
    /\ RecordOf(lastOp.key) # <<>>
    /\ ~IsTorn(RecordOf(lastOp.key)[1])
    /\ RecordOf(lastOp.key)[1].vsz # tombstoneValueSize
    => LET rec == RecordOf(lastOp.key)[1]
       IN  /\ lastOp.res.err = "nil" =>
                 CrcOk(rec) /\ rec.key = lastOp.key /\ lastOp.res.val = rec.val
           /\ ~CrcOk(rec) \/ rec.key # lastOp.key => lastOp.res = ErrDataCorruption

\* C15: a Put or Delete that returns an error leaves the KeyDir as it was,
\* every KeyDir entry resolving to an open reader and every key that was
\* readable readable with the same value.
C15_WriteErrorKeepsStore ==
    [][lastOp'.op \in {"Put", "Delete"} /\ lastOp'.res.err # "nil" =>
          /\ keyDir' = keyDir
          /\ \A k \in DOMAIN keyDir' : Resolves(k)'
          /\ \A k \in Keys : GetAll[k].err = "nil" => GetAll'[k] = GetAll[k]]_vars

\* C17: Close has called Close on the active writer and on every reader of
\* olderFiles, whatever the earlier closes returned, and returns the first
\* error (nil if none failed).
C17_CloseAttemptsAll ==
    lastOp.op = "Close" =>
        /\ snap.closed = [writer |-> TRUE, readers |-> olderFiles]
        /\ lastOp.res.err # "nil" => lastOp.res = Err("file already closed")

\* a record of segment id is cut short or fails its checksum
BadRecordIn(id) ==
    \E i \in 1..Len(dataFiles[id]) : IsTorn(dataFiles[id][i]) \/ ~CrcOk(dataFiles[id][i])

\* the segments NewDB scans: those without a hint file
ScannedIDs == DOMAIN dataFiles \ DOMAIN hintFiles

HasShardTombstone(k) ==
    \E i \in ShardIDs : \E id \in DOMAIN sdb.shards[i].dataFiles :
        \E j \in 1..Len(sdb.shards[i].dataFiles[id]) :
            /\ sdb.shards[i].dataFiles[id][j].key = k
            /\ sdb.shards[i].dataFiles[id][j].vsz = tombstoneValueSize

\* The hash of the key, read as an int of the platform, is negative.
NegativeHash(key) == IntOf(Sum32(key), intBits).neg

\* C18: getShard picks, for every key and every shard count N >= 1, an index
\* in [0, N), also where the 32-bit hash reads as a negative int; through
\* the router a Get after a Put of v returns v and a Get after a Delete
\* returns ErrKeyNotFound.  Every record and every KeyDir entry of a key is in
\* the one shard the key routes to.
C18_RouterRoutes ==
    /\ sdb.numShards >= 1
    /\ \A k \in RouterKeys : getShard(k) \in 0..(sdb.numShards - 1)
    /\ \A i \in ShardIDs :
           /\ \A k \in DOMAIN sdb.shards[i].keyDir : getShard(k) = i
           /\ \A id \in DOMAIN sdb.shards[i].dataFiles :
                  \A j \in 1..Len(sdb.shards[i].dataFiles[id]) :
                      getShard(sdb.shards[i].dataFiles[id][j].key) = i
    /\ lastOp.op = "Get" => lastOp.res = lastWrite[lastOp.key]

\* a value read back through the router from a shard other than shard 0,
\* picked from a negative remainder
C18_Witness ==
    /\ lastOp.op = "Get" /\ lastOp.res.err = "nil"
    /\ NegativeHash(lastOp.key)
    /\ Rem(IntOf(Sum32(lastOp.key), intBits), sdb.numShards) < 0
    /\ lastOp.key \in DOMAIN sdb.shards[getShard(lastOp.key)].keyDir
    /\ \E k \in RouterKeys : lastWrite[k] = ErrKeyNotFound /\ HasShardTombstone(k)

\* ---- C20
FailedShards == {i \in DOMAIN sdb.closeRes : sdb.closeRes[i].err # "nil"}

\* C20: ShardedDB.Close calls Close on every shard, also after a shard has
\* failed to close, and returns the error of the failing shard with the
\* lowest index, or nil when every shard closed.
C20_RouterCloseAll ==
    lastOp.op = "Close" =>
        /\ DOMAIN sdb.closeRes = ShardIDs
        /\ \A i \in ShardIDs : sdb.shards[i].activeFile = "closed"
        /\ lastOp.res = IF FailedShards = {} THEN Ok(<<>>)
                        ELSE sdb.closeRes[Min(FailedShards)]

\* two shards failed to close, shard 0 did not, and a later shard closed
C20_Witness ==
    /\ lastOp.op = "Close"
    /\ Cardinality(FailedShards) >= 2
    /\ 0 \notin FailedShards
    /\ lastOp.res.err # "nil" /\ lastOp.res.path[1] = Min(FailedShards)
    /\ sdb.closeRes[0] = Ok(<<>>)

\* ---- C19
\* the state of a shard the claim speaks of: KeyDir, segments, write offset
StoreOf(shards, i) ==
    [keyDir |-> shards[i].keyDir, dataFiles |-> shards[i].dataFiles,
     hintFiles |-> shards[i].hintFiles, writeOffset |-> shards[i].writeOffset,
     olderFiles |-> shards[i].olderFiles, activeFileID |-> shards[i].activeFileID,
     activeFile |-> shards[i].activeFile]

\* the goroutines that hold, in whatever mode, the lock of shard i
HoldersOf(i) == {u \in Threads : pc[u] = "locked" /\ call[u].shard = i}

\* a Put, Get or Delete about to lock a shard no goroutine holds can lock it,
\* whatever locks are held on the other shards
NeverBlockedByOtherShard ==
    \A t \in Threads :
        (pc[t] = "call" /\ call[t].op \in {"Put", "Get", "Delete"}
            /\ HoldersOf(call[t].shard) = {})
        => ENABLED (ShardLock(t) \/ ShardRLock(t))

\* a step changes the store of a shard only when it is the body of the
\* goroutine that holds the write lock of that very shard
OnlyOwnShardChanges ==
    \A i \in ShardIDs :
        StoreOf(sdb'.shards, i) # StoreOf(sdb.shards, i)
        => \E t \in Threads :
               /\ pc[t] = "locked" /\ pc'[t] # "locked"
               /\ call[t].shard = i /\ sdb.shards[i].mu.writer = t

\* C19: shards are independent.  A goroutine holding the lock of one shard,
\* for a Put, Delete, Get or Merge, does not block a Put, Get or Delete on
\* another shard, and an operation on one shard changes no KeyDir, segment or
\* write offset of another shard.
C19_ShardsIndependent ==
    /\ []NeverBlockedByOtherShard
    /\ [][OnlyOwnShardChanges]_vars

\* a Merge holds the lock of one shard while a Put holds the lock of another
C19_Witness ==
    \E t, u \in Threads :
        /\ pc[u] = "locked" /\ call[u].op = "Merge"
        /\ pc[t] = "locked" /\ call[t].op = "Put"
        /\ call[t].shard # call[u].shard
        /\ sdb.shards[call[t].shard].mu.writer = t
        /\ sdb.shards[call[u].shard].mu.writer = u

\* ---- C21
\* C21: ShardedDB.Merge runs Merge on the shards one at a time in index
\* order, and when it returns Merge has been run on every shard.
C21_RouterMergesAll ==
    lastOp.op = "Merge" => sdb.merged = ShardIDs

\* ---- C22
\* a goroutine that is not inside a call holds no lock
LockReleasedOnReturn ==
    \A t \in Threads : pc[t] = "idle" => (mu.writer # t /\ t \notin mu.readers)

\* while some goroutine is inside a call, some goroutine inside a call can
\* take its next step
NoDeadlock ==
    (\E t \in Threads : pc[t] # "idle") =>
        ENABLED (\E t \in Threads :
                    \/ LockAnnounce(t) \/ Lock(t) \/ RLock(t)
                    \/ RunPut(t) \/ RunDelete(t) \/ RunGet(t) \/ RunMerge(t)
                    \/ Unlock(t) \/ RUnlock(t))

\* C22: every call returns, with a result or an error, and has released the
\* lock of the store when it returns; no state is a deadlock, and with fair
\* scheduling every goroutine waiting for the lock gets it.
C22_CallsReturn ==
    /\ [](LockReleasedOnReturn /\ NoDeadlock)
    /\ \A t \in Threads : (pc[t] = "call") ~> (pc[t] = "locked")
    /\ \A t \in Threads : (pc[t] # "idle") ~> (pc[t] = "idle")

\* a Get has returned an error, and a goroutine waits for the lock that
\* a writer holds
C22_Witness ==
    \E t, u \in Threads :
        /\ lastOp.op = "Get" /\ lastOp.res.err # "nil"
        /\ pc[t] = "locked" /\ mu.writer = t
        /\ pc[u] = "call"

\* ---- C23
\* the KeyDir entry of key names a segment the store has a handle of, and a
\* whole record with a matching CRC, the key of the entry and a value (no
\* tombstone) starts at its offset
EntrySound(key) ==
    /\ keyDir[key].FileID \in olderFiles \cup {activeFileID}
    /\ keyDir[key].FileID \in DOMAIN dataFiles
    /\ RecordOf(key) # <<>>
    /\ ~IsTorn(RecordOf(key)[1])
    /\ CrcOk(RecordOf(key)[1])
    /\ RecordOf(key)[1].key = key
    /\ RecordOf(key)[1].vsz # tombstoneValueSize

\* C23: in every state of an open store (after open and after every Put,
\* Delete and Merge that has returned) each KeyDir entry names the active
\* segment or a segment of olderFiles, and the record at its offset is whole,
\* passes its CRC, has the key of the entry and is no tombstone; Get never
\* returns "file not found: internal error".
C23_KeyDirSound ==
    open => \A k \in DOMAIN keyDir :
                /\ EntrySound(k)
                /\ Get(k) # Err("file not found: internal error")

\* ---- C24
\* C24: an open store has one active segment, whose file exists; its ID is
\* greater than the ID of every segment of olderFiles and of every other
\* <ID>.data file of the directory, and it is not a key of olderFiles.  This
\* holds after open of an empty and of an existing directory, after every
\* rotation and after every Merge.
C24_ActiveIsMax ==
    open =>
        /\ activeFileID \in DOMAIN dataFiles
        /\ activeFileID \notin olderFiles
        /\ \A id \in (olderFiles \cup DOMAIN dataFiles) \ {activeFileID} : id < activeFileID

\* ---- C25
\* the bytes of segment id without its largest record
SizeBeforeOneRecord(id) ==
    IF dataFiles[id] = <<>> THEN 0
    ELSE FileSize(dataFiles[id])
           - Max({RecLen(dataFiles[id][i]) : i \in 1..Len(dataFiles[id])})

\* C25: every data segment file of the store (the active one, the ones sealed
\* by a rotation, the ones written by Merge) is at most MaxFileSize plus one
\* record long.
C25_SegmentSizeBounded ==
    \A id \in DOMAIN dataFiles : SizeBeforeOneRecord(id) <= MaxFileSize

\* ---- C26
\* C26: in an open store writeOffset is the physical size of the active
\* segment file: after open, after a rotation and after every Put and Delete,
\* whether it returned nil or an error.
C26_WriteOffsetIsFileSize ==
    open => /\ activeFileID \in DOMAIN dataFiles
            /\ writeOffset = FileSize(dataFiles[activeFileID])

\* ---- C27
\* the last record of the active segment
LastActiveRecord == dataFiles[activeFileID][Len(dataFiles[activeFileID])]

\* the KeyDir entries of the keys other than key are the same before and
\* after the step
OthersKept(key) ==
    /\ DOMAIN keyDir' \ {key} = DOMAIN keyDir \ {key}
    /\ \A j \in DOMAIN keyDir \ {key} : keyDir'[j] = keyDir[j]

C28_RotationAtThreshold ==
    [][lastOp'.op \in {"Put", "Delete"} /\ lastOp'.res.err = "nil" =>
          /\ dataFiles'[activeFileID'] # <<>>
          /\ IF writeOffset + RecLen(LastActiveRecord') > MaxFileSize
             THEN /\ activeFileID' = activeFileID + 1
                  /\ olderFiles' = olderFiles \cup {activeFileID}
                  /\ dataFiles'[activeFileID] = dataFiles[activeFileID]
                  /\ Len(dataFiles'[activeFileID']) = 1
                  /\ writeOffset' = RecLen(LastActiveRecord')
                  /\ DOMAIN dataFiles' = DOMAIN dataFiles \cup {activeFileID'}
             ELSE /\ activeFileID' = activeFileID
                  /\ olderFiles' = olderFiles
                  /\ DOMAIN dataFiles' = DOMAIN dataFiles
                  /\ writeOffset' = writeOffset + RecLen(LastActiveRecord')
          /\ \A j \in Keys \ {lastOp'.key} :
                GetAll[j].err = "nil" => GetAll'[j] = GetAll[j]]_vars

\* a Put has rotated away from a segment filled to MaxFileSize exactly, and
\* a key of that segment is readable
C28_Witness ==
    /\ lastOp.op = "Put" /\ lastOp.res.err = "nil" /\ open
    /\ activeFileID - 1 \in olderFiles
    /\ FileSize(dataFiles[activeFileID - 1]) = MaxFileSize
    /\ Len(dataFiles[activeFileID]) = 1
    /\ \E j \in DOMAIN keyDir : keyDir[j].FileID = activeFileID - 1 /\ Get(j).err = "nil"

\* ---- C29
\* goroutine t is inside the body of a call, between the lock and the unlock
InBody(t) == pc[t] \in {"locked", "swapped", "ran"}

\* two goroutines are inside a body together only if both run Get
MutualExclusion ==
    \A t, u \in Threads :
        t # u /\ InBody(t) /\ InBody(u) => call[t].op = "Get" /\ call[u].op = "Get"

\* C29: Put, Delete and Merge exclude each other and every Get; Gets overlap
\* only with Gets.  Merge holds the write lock from its first step to its
\* last, so a Get that finds its key in the KeyDir finds an entry whose
\* segment is open and on disk and whose record it reads.
C29_WritersExclusive ==
    /\ []MutualExclusion
    /\ [][\A t \in Threads :
             /\ pc[t] = "locked" /\ pc'[t] = "ran" /\ call[t].op = "Get"
             /\ call[t].key \in DOMAIN keyDir
             => EntrySound(call[t].key) /\ call'[t].res.err = "nil"]_vars

\* a Merge has removed the old segments and not yet changed the KeyDir, and
\* a Get of a key whose entry names a removed segment waits for the lock
C29_Witness ==
    \E t, u \in Threads :
        /\ pc[t] = "swapped" /\ mu.writer = t
        /\ pc[u] = "call" /\ call[u].op = "Get"
        /\ call[u].key \in DOMAIN keyDir
        /\ keyDir[call[u].key].FileID \notin olderFiles \cup {activeFileID}

\* ---- C30
\* position of the first call c on file (name, id) in the log, 0 if none
FirstCall(c, name, id) ==
    IF \E i \in DOMAIN ioLog : ioLog[i] = FileCall(c, name, id)
    THEN Min({i \in DOMAIN ioLog : ioLog[i] = FileCall(c, name, id)})
    ELSE 0

\* file (name, id) was synced and then closed before position i of the log
SyncedClosedBefore(name, id, i) ==
    /\ 0 < FirstCall("Sync", name, id)
    /\ FirstCall("Sync", name, id) < FirstCall("Close", name, id)
    /\ FirstCall("Close", name, id) < i

\* C30: a rotation syncs the retiring segment before it closes its handle,
\* and does both before it opens the next segment; Merge syncs and closes
\* merge.data and merge.hint before it removes any old file and before
\* either rename.
C30_SyncBeforeSwap ==
    \A i \in DOMAIN ioLog :
        /\ ioLog[i].call = "OpenFile" /\ ioLog[i].file.name = "data" =>
              SyncedClosedBefore("data", ioLog[i].file.id - 1, i)
        /\ ioLog[i].call \in {"Remove", "Rename"} =>
              \E id \in DOMAIN dataFiles :
                  /\ SyncedClosedBefore("merge.data", id, i)
                  /\ SyncedClosedBefore("merge.hint", id, i)

\* a Put has rotated in a store whose directory holds the hint file of an
\* earlier Merge
C30_Witness ==
    /\ open /\ lastOp.op = "Put"
    /\ \E i \in DOMAIN ioLog : ioLog[i].call = "OpenFile"
    /\ DOMAIN hintFiles # {}

\* ---- C31
\* the number of records in all data files
RECURSIVE RecordCount(_)
RecordCount(ids) ==
    IF ids = {} THEN 0
    ELSE LET id == CHOOSE x \in ids : TRUE
         IN  Len(dataFiles[id]) + RecordCount(ids \ {id})

\* C31: after a Merge that returned nil and had segments to merge, the merged
\* segment holds, for each key whose KeyDir entry was outside the active
\* segment, one record, equal byte for byte to the record the entry pointed
\* at, and nothing else: no tombstone, no older record of a key and no record
\* of a key whose entry is in the active segment.
C31_MergedHoldsLiveOnly ==
    [][lastOp'.op = "Merge" /\ lastOp'.res.err = "nil" /\ olderFiles # {} =>
          LET m == dataFiles'[TargetID]
          IN  /\ Len(m) = Cardinality(MergeKeys)
              /\ \A k \in MergeKeys :
                    \E i \in 1..Len(m) : m[i] = RecordOf(k)[1] /\ m[i].key = k
              /\ \A i \in 1..Len(m) :
                    /\ m[i].key \in MergeKeys
                    /\ m[i].vsz # tombstoneValueSize]_vars

\* a Merge has returned nil, its merged segment holds a record, and fewer
\* records are on disk than were written: the Merge dropped one
C31_Witness ==
    /\ lastOp.op = "Merge" /\ lastOp.res.err = "nil" /\ ~lastOp.again /\ open
    /\ olderFiles # {}
    /\ dataFiles[Min(olderFiles)] # <<>>
    /\ RecordCount(DOMAIN dataFiles) < clock

\* ---- C32
\* C32: a Merge leaves the active segment as it was: the bytes of the active
\* file, activeFileID, writeOffset and every KeyDir entry of the active
\* segment are the same before and after; with no segment in olderFiles it
\* returns nil and changes no file and no field of the store.
C32_MergeKeepsActive ==
    [][lastOp'.op = "Merge" =>
          /\ activeFileID \in DOMAIN dataFiles'
          /\ dataFiles'[activeFileID] = dataFiles[activeFileID]
          /\ activeFileID' = activeFileID
          /\ writeOffset' = writeOffset
          /\ \A k \in DOMAIN keyDir :
                keyDir[k].FileID = activeFileID =>
                    k \in DOMAIN keyDir' /\ keyDir'[k] = keyDir[k]
          /\ olderFiles = {} =>
                /\ lastOp'.res.err = "nil"
                /\ UNCHANGED <<diskVars, dbVars>>]_vars

\* ---- C33
\* C33: after a Merge that returned nil and had segments to merge, olderFiles
\* holds one segment, the smallest ID it held before; the .data and .hint
\* file of that ID exist, those of every other ID that was in olderFiles do
\* not, merge.data and merge.hint do not, and every KeyDir entry outside the
\* active segment names that ID.
C33_MergeLeavesOneSegment ==
    [][lastOp'.op = "Merge" /\ lastOp'.res.err = "nil" /\ olderFiles # {} =>
          /\ olderFiles' = {Min(olderFiles)}
          /\ Min(olderFiles) \in DOMAIN dataFiles' \cap DOMAIN hintFiles'
          /\ \A id \in olderFiles \ {Min(olderFiles)} :
                id \notin DOMAIN dataFiles' \cup DOMAIN hintFiles'
          /\ tempFiles' = {}
          /\ \A k \in DOMAIN keyDir' :
                keyDir'[k].FileID # activeFileID' => keyDir'[k].FileID = Min(olderFiles)]_vars

\* ---- C34
\* entry h of a hint file describes the record of data file f that starts at
\* its offset
EntryMatches(h, f) ==
    /\ RecordAt(f, h.off) # 0
    /\ LET rec == f[RecordAt(f, h.off)]
       IN  /\ ~IsTorn(rec)
           /\ h.key = rec.key /\ h.ksz = rec.ksz /\ h.vsz = rec.vsz /\ h.ts = rec.ts

\* C34: whenever <ID>.hint and <ID>.data both exist, every record of the data
\* file has exactly one hint entry and every entry has the key, KeySize,
\* ValueSize and timestamp of the record at its offset; no hint file belongs
\* to the segment that is active.
C34_HintMatchesData ==
    \A id \in DOMAIN hintFiles \cap DOMAIN dataFiles :
        /\ \A j \in 1..Len(hintFiles[id]) : EntryMatches(hintFiles[id][j], dataFiles[id])
        /\ \A i \in 1..Len(dataFiles[id]) :
              Cardinality({j \in 1..Len(hintFiles[id]) :
                              hintFiles[id][j].off = OffsetOf(dataFiles[id], i)}) = 1
        /\ open => id # activeFileID

\* ---- C35
\* C35: of two records in different segments of the store, the one in the
\* segment with the larger ID was written by the later Put or Delete (the
\* clock value in the record is the number of the write); this holds after
\* rotations and after Merge has reused the smallest immutable ID.
C35_IdOrderIsWriteOrder ==
    \A a, b \in DOMAIN dataFiles :
        a < b => \A i \in 1..Len(dataFiles[a]), j \in 1..Len(dataFiles[b]) :
                     dataFiles[a][i].ts < dataFiles[b][j].ts

\* a Merge has put the records of two keys into the segment with the
\* smallest ID while the active segment holds a record
C35_Witness ==
    /\ lastOp.op = "Merge" /\ lastOp.res.err = "nil" /\ open
    /\ olderFiles # {}
    /\ Len(dataFiles[Min(olderFiles)]) >= 2
    /\ dataFiles[activeFileID] # <<>>

\* ---- C36
\* sequence p is the beginning of sequence q
IsPrefix(p, q) == Len(p) <= Len(q) /\ SubSeq(q, 1, Len(p)) = p

\* a step of an open store creates a segment only as the new active one, by
\* a rotation to the next ID, which retires the old active one; the file of
\* the active segment only grows
ActiveLifecycle ==
    /\ \A id \in DOMAIN dataFiles' \ DOMAIN dataFiles : id = activeFileID'
    /\ activeFileID' # activeFileID =>
          /\ lastOp'.op \in {"Put", "Delete"}
          /\ activeFileID' = activeFileID + 1
          /\ activeFileID' \notin DOMAIN dataFiles
          /\ activeFileID \in olderFiles' /\ activeFileID \notin olderFiles
    /\ activeFileID \in DOMAIN dataFiles'
    /\ IsPrefix(dataFiles[activeFileID], dataFiles'[activeFileID])

\* a segment that is not the active one keeps its bytes until a Merge
\* removes it or writes its merged segment under its ID
ImmutableLifecycle ==
    /\ \A id \in DOMAIN dataFiles \ {activeFileID} :
          lastOp'.op # "Merge" => id \in DOMAIN dataFiles' /\ dataFiles'[id] = dataFiles[id]
    /\ \A id \in olderFiles \ olderFiles' : lastOp'.op = "Merge"
    /\ \A id \in olderFiles' \ olderFiles : id = activeFileID /\ activeFileID' # activeFileID

EdgeKeys == {<<>>, <<1>>}
EdgeValues == {<<>>, <<5>>}

NextEdge ==
    \/ \E k \in EdgeKeys, v \in EdgeValues : Put(k, v)
    \/ \E k \in EdgeKeys : Delete(k)
    \/ \E k \in EdgeKeys : GetOp(k)
    \/ Merge
    \/ Close
    \/ NewDB

SpecEdge == Init /\ [][NextEdge]_vars

\* ---- C37
\* DB.Get with the record read through the given reader wherever it lies
GetThrough(reader, key) ==
    IF key \notin DOMAIN keyDir THEN ErrKeyNotFound
    ELSE LET pos == keyDir[key]
             r == GetRead(reader, ReaderContent(pos.FileID), pos.Offset)
         IN  IF r.err # "nil" THEN r
             ELSE IF r.val.key # key THEN Err("key mismatch")
             ELSE Ok(r.val.val)

\* C37: for every key and value Put accepts, the empty key and the empty
\* value included, Get returns through the memory-mapped reader of an
\* immutable segment (after a rotation, a Merge or a re-open) what the
\* positional reader returns for the same record, also for the record that
\* is the last of its segment.
C37_ReadersInterchangeable ==
    open =>
        \A k \in DOMAIN keyDir :
            keyDir[k].FileID \in olderFiles \ {activeFileID} =>
                Get(k) = GetThrough("disk", k)

\* ---- C38
\* a step in which the body of a Get runs: of a goroutine that holds the
\* read lock, or of the single caller
GetStep ==
    \/ \E t \in Threads : pc[t] = "locked" /\ call[t].op = "Get" /\ pc'[t] = "ran"
    \/ pc' = pc /\ lastOp'.op = "Get"

\* C38: a Get changes nothing: the KeyDir, the active segment ID, the write
\* offset, the set of immutable segments and every file are the same after
\* it as before, whether it returns a value, KeyNotFound or an error, so a
\* Get returns after it what it returned before it for every key.
C38_GetIsReadOnly ==
    [][GetStep =>
          /\ UNCHANGED <<keyDir, activeFileID, writeOffset, olderFiles, activeFile, open>>
          /\ UNCHANGED <<dataFiles, hintFiles, tempFiles>>
          /\ \A k \in Keys : Get(k)' = Get(k)]_vars

\* a Get has returned an error that is not KeyNotFound
C38_Witness ==
    /\ lastOp.op = "Get"
    /\ lastOp.res.err \notin {"nil", "ErrKeyNotFound"}
    /\ lastOp.key \in DOMAIN keyDir

\* ---- C39
\* C39: every record of every data segment has a KeySize above zero, and
\* the KeyDir has no entry for the empty key: a Put or Delete called with
\* the empty key appends nothing and indexes nothing.
C39_NoEmptyKeyRecord ==
    /\ \A id \in DOMAIN dataFiles :
          \A i \in 1..Len(dataFiles[id]) : dataFiles[id][i].ksz > 0
    /\ <<>> \notin DOMAIN keyDir
====
